---------------------------- MODULE Spec2Model ----------------------------
(***************************************************************************)
(* A model of the MMA win-probability library (mma_prob_model.py,          *)
(* mma_round_demo.py) and of the two callers that build its input records  *)
(* (mma_gui.py get_fighter_stats, ufc_fighter_scraper.py).                 *)
(*                                                                         *)
(* Arithmetic.  The program computes with Python floats (IEEE-754 binary   *)
(* floating point, round to nearest, ties to even).  The model keeps that   *)
(* arithmetic: a number is a pair <<m, e>> standing for m * 2^e, every     *)
(* operation computes the exact result and rounds it once to MantBits      *)
(* significant bits, and the exponent range is the one of a double.  Only  *)
(* the width of the significand is reduced (a double has 53 bits), so that *)
(* every intermediate integer fits the model checker's integers.  Rounding, *)
(* absorption (1.0 + x = 1.0 for small x), non-associative addition and    *)
(* underflow of exp all happen in the model as they do in the program, at  *)
(* thresholds that scale with MantBits.                                    *)
(***************************************************************************)
EXTENDS Integers, Sequences, FiniteSets, TLC

(***************************************************************************)
(* Floating point                                                          *)
(***************************************************************************)

\* Width of the significand, in bits.
MantBits == 12

\* Exponent of the smallest positive double, 2^-1074.
ExpMin == 0 - 1074

Abs(n) == IF n < 0 THEN 0 - n ELSE n

Sgn(n) == IF n < 0 THEN 0 - 1 ELSE IF n > 0 THEN 1 ELSE 0

Max2(x, y) == IF x >= y THEN x ELSE y

RECURSIVE BitLen(_)
BitLen(n) == IF n = 0 THEN 0 ELSE 1 + BitLen(n \div 2)

\* q or q + 1: the quotient q of a division by d that left remainder r,
\* rounded to nearest, ties to even.
Nearest(q, r, d) == IF 2 * r > d \/ (2 * r = d /\ q % 2 = 1) THEN q + 1 ELSE q

\* n / 2^s for n >= 0, rounded to nearest, ties to even.
ShiftRightEven(n, s) ==
    IF s >= 31 THEN 0 ELSE Nearest(n \div (2 ^ s), n % (2 ^ s), 2 ^ s)

\* sign * q * 2^e, where q is a significand already cut to MantBits bits:
\* cutting may have carried into bit MantBits + 1.
Carry(sign, q, e) ==
    IF q = 0 THEN <<0, 0>>
    ELSE IF q = 2 ^ MantBits /\ e + 1 > ExpMin
         THEN <<sign * (2 ^ (MantBits - 1)), e + 1>>
         ELSE <<sign * q, e>>

\* m * 2^e with its significand shifted right by s binary places (left when
\* s is negative, which is exact).
Shifted(m, e, s) ==
    IF s <= 0 THEN <<m * (2 ^ (0 - s)), e + s>>
    ELSE Carry(Sgn(m), ShiftRightEven(Abs(m), s), e + s)

\* The float nearest to m * 2^e: the significand is cut to MantBits bits
\* (fewer below the normal range, where the exponent stays at ExpMin).
Round(m, e) ==
    IF m = 0 THEN <<0, 0>>
    ELSE Shifted(m, e, Max2(BitLen(Abs(m)) - MantBits, ExpMin - e))

\* m * 2^e, m of n bits, with the significand widened to MantBits bits.
WidenBy(m, e, n) == <<m * (2 ^ (MantBits - n)), e - (MantBits - n)>>

\* <<m, e>> with the significand widened to MantBits bits, whatever the
\* exponent (an intermediate form: both operands of a division).
Widen(x) == IF x[1] = 0 THEN x ELSE WidenBy(x[1], x[2], BitLen(Abs(x[1])))

FInt(n) == Round(n, 0)

FZero == <<0, 0>>

FOne == <<2 ^ (MantBits - 1), 0 - (MantBits - 1)>>

FNeg(x) == <<0 - x[1], x[2]>>

\* x + y for x, y # 0, gap the number of binary places the leading bit of x
\* is above that of y.  An operand more than MantBits + 2 places below the
\* other cannot change the rounded result; otherwise the sum is exact and
\* rounded once.
AddAligned(x, y, gap) ==
    IF gap > MantBits + 2 THEN x
    ELSE IF 0 - gap > MantBits + 2 THEN y
    ELSE IF x[2] >= y[2]
         THEN Round(x[1] * (2 ^ (x[2] - y[2])) + y[1], y[2])
         ELSE Round(y[1] * (2 ^ (y[2] - x[2])) + x[1], x[2])

FAdd(x, y) ==
    IF x[1] = 0 THEN y
    ELSE IF y[1] = 0 THEN x
    ELSE IF x[2] = y[2] THEN Round(x[1] + y[1], x[2])
    ELSE AddAligned(x, y, (x[2] + BitLen(Abs(x[1]))) - (y[2] + BitLen(Abs(y[1]))))

FSub(x, y) == FAdd(x, FNeg(y))

FMul(x, y) == Round(x[1] * y[1], x[2] + y[2])

\* sign * n / d * 2^e for n, d > 0: the quotient with a sticky bit for the
\* remainder, rounded once.
Quotient(sign, n, d, e) ==
    Round(sign * (2 * (n \div d) + (IF n % d = 0 THEN 0 ELSE 1)), e - 1)

\* a / b for widened a, b # 0: the quotient is taken to MantBits + 2 bits.
DivWide(a, b) ==
    Quotient(Sgn(a[1]) * Sgn(b[1]), Abs(a[1]) * (2 ^ (MantBits + 2)), Abs(b[1]),
             a[2] - b[2] - (MantBits + 2))

\* x / y for y # 0.
FDiv(x, y) == IF x[1] = 0 THEN FZero ELSE DivWide(Widen(x), Widen(y))

\* The order of two floats is the order of their values: a float is 0, or
\* has the sign of its significand and, among floats of one sign, a larger
\* magnitude when the leading bit is higher or, at the same height, the
\* significand is larger.
Height(x) == x[2] + BitLen(Abs(x[1]))

MagLt(x, y, hx, hy) ==
    IF hx # hy THEN hx < hy
    ELSE IF x[2] >= y[2] THEN Abs(x[1]) * (2 ^ (x[2] - y[2])) < Abs(y[1])
         ELSE Abs(x[1]) < Abs(y[1]) * (2 ^ (y[2] - x[2]))

FLt(x, y) ==
    IF Sgn(x[1]) # Sgn(y[1]) THEN Sgn(x[1]) < Sgn(y[1])
    ELSE IF x[1] = 0 THEN FALSE
    ELSE IF x[2] = y[2] THEN x[1] < y[1]
    ELSE IF x[1] > 0 THEN MagLt(x, y, Height(x), Height(y))
    ELSE MagLt(y, x, Height(y), Height(x))

FLe(x, y) == ~FLt(y, x)

FMax(x, y) == IF FLt(x, y) THEN y ELSE x

FMin(x, y) == IF FLt(y, x) THEN y ELSE x

\* A decimal literal n/100 (5.36 is FDec(536)): the nearest float.
FDec(n) == FDiv(FInt(n), FInt(100))

(***************************************************************************)
(* math.exp for arguments <= 0 (sigmoid passes no other).  The argument    *)
(* is scaled by log2(e) in fixed point with ExpFrac fractional bits, split *)
(* into an integer part k and a fraction f, and 2^-f is summed as the      *)
(* series of exp(-f ln 2) in Horner form; the result 2^-k * 2^-f is then   *)
(* rounded as every other float is.  Like the C library's exp it is within *)
(* about one unit in the last place; exp(0) is exactly 1, and the result   *)
(* underflows to 0 below 2^-1075.                                          *)
(***************************************************************************)
ExpFrac == 15

\* Rounded n / d for n >= 0, d > 0.
DivRound(n, d) == (2 * n + d) \div (2 * d)

\* log2(e) - 1 = 0.442695040889 as Log2eHi / 2^12 + Log2eLo / 2^24.
Log2eHi == 1813

Log2eLo == 1143

\* ln 2 = 0.693147 in units of 2^-ExpFrac.
Ln2Fix == 22713

\* (nh * 4096 + nl) * log2(e), in units of 2^-ExpFrac.
TimesLog2eSplit(nh, nl) ==
    nh * 4096 + nl + nh * Log2eHi + DivRound(nl * Log2eHi, 4096)
      + DivRound(nh * Log2eLo + DivRound(nl * Log2eLo, 4096), 4096)

\* n * log2(e), n in units of 2^-ExpFrac, n < 2^26.
TimesLog2e(n) == TimesLog2eSplit(n \div 4096, n % 4096)

\* exp(-u) for u in [0, ln 2), u and the result in units of 2^-ExpFrac:
\* the terms i, i - 1, ..., 1 of the series, innermost first.
RECURSIVE Horner(_, _, _)
Horner(u, i, acc) ==
    IF i = 0 THEN acc
    ELSE Horner(u, i - 1, (2 ^ ExpFrac) - DivRound(DivRound(u * acc, 2 ^ ExpFrac), i))

\* 2^-t for t >= 0 in units of 2^-ExpFrac.
Exp2Neg(t) ==
    Round(Horner(DivRound((t % (2 ^ ExpFrac)) * Ln2Fix, 2 ^ ExpFrac), 8, 2 ^ ExpFrac),
          0 - ExpFrac - (t \div (2 ^ ExpFrac)))

FExp(x) ==
    IF x[1] >= 0 THEN FOne
    ELSE IF x[2] + BitLen(Abs(x[1])) > 11 THEN FZero
    ELSE IF x[2] + ExpFrac >= 0
         THEN Exp2Neg(TimesLog2e(Abs(x[1]) * (2 ^ (x[2] + ExpFrac))))
         ELSE Exp2Neg(TimesLog2e(ShiftRightEven(Abs(x[1]), 0 - (x[2] + ExpFrac))))

(***************************************************************************)
(* Data structures                                                         *)
(***************************************************************************)

EPS == Round(2251800, 0 - 51)   \* 1e-9 = 2251799.8 * 2^-51

\* The fields of FighterStats, in the order of its constructor.
Fields ==
    <<"slpm", "sapm", "strike_acc", "strike_def", "td_avg15",
      "td_acc", "td_def", "sub_avg15", "kd_avg", "aft_minutes">>

FieldSet == {Fields[i] : i \in 1..Len(Fields)}

\* The fields from_dict reads through pct().
PctFields == {"strike_acc", "strike_def", "td_acc", "td_def"}

\* A value of a mapping handed to from_dict: a number, a text that
\* float() rejects, or None.  A key the mapping lacks is not in its domain.
Num(x) == [kind |-> "num", val |-> x]

None == [kind |-> "none", val |-> FZero]

Text == [kind |-> "text", val |-> FZero]

\* float(v): the number, or the exception float raises.
float(v) ==
    IF v.kind = "num" THEN [ok |-> TRUE, val |-> v.val, err |-> ""]
    ELSE IF v.kind = "none" THEN [ok |-> FALSE, val |-> FZero, err |-> "TypeError"]
    ELSE [ok |-> FALSE, val |-> FZero, err |-> "ValueError"]

\* A variant of pct that also divides 1.0 itself by 100 (`v >= 1.0`).
PctFromOne(v) ==
    IF v.kind = "none" THEN [ok |-> TRUE, val |-> FZero, err |-> ""]
    ELSE IF v.kind # "num" THEN [ok |-> FALSE, val |-> FZero, err |-> "ValueError"]
    ELSE IF FLe(FOne, v.val)
         THEN [ok |-> TRUE, val |-> FDiv(v.val, FInt(100)), err |-> ""]
         ELSE [ok |-> TRUE, val |-> v.val, err |-> ""]

\* pct(v) of from_dict.
pct(v) ==
    IF v.kind = "none" THEN [ok |-> TRUE, val |-> FZero, err |-> ""]
    ELSE LET f == float(v)
         IN  IF ~f.ok THEN f
             ELSE IF FLt(FOne, f.val)
                  THEN [ok |-> TRUE, val |-> FDiv(f.val, FInt(100)), err |-> ""]
                  ELSE f

\* A variant of d.get(k, 0.0) without the default: d.get(k).
DictGetNoDefault(d, k) == IF k \in DOMAIN d THEN d[k] ELSE None

\* d.get(k, 0.0)
DictGet(d, k) == IF k \in DOMAIN d THEN d[k] ELSE Num(FZero)

\* The conversion from_dict applies to field k of mapping d.
FieldOf(d, k) == IF k \in PctFields THEN pct(DictGet(d, k)) ELSE float(DictGet(d, k))

\* FighterStats.from_dict(d): the record, or the exception of the first
\* field (in constructor order) whose conversion fails.
from_dict(d) ==
    LET bad == {i \in 1..Len(Fields) : ~FieldOf(d, Fields[i]).ok}
    IN  IF bad = {}
        THEN [ok |-> TRUE, err |-> "", rec |-> [k \in FieldSet |-> FieldOf(d, k).val]]
        ELSE LET i == CHOOSE j \in bad : \A l \in bad : j <= l
             IN  [ok |-> FALSE, err |-> FieldOf(d, Fields[i]).err,
                  rec |-> [k \in FieldSet |-> FZero]]

normalize_inputs(d) == from_dict(d)

(***************************************************************************)
(* Feature engineering                                                     *)
(***************************************************************************)

clip(v, lo, hi) == FMax(lo, FMin(hi, v))

safe_div(a, b) == FDiv(a, FAdd(b, EPS))

fighter_feature_vector(f) ==
    [strike_output     |-> f.slpm,
     strike_pressure   |-> FMul(f.slpm,
                               FSub(FOne, clip(FDiv(f.aft_minutes, FInt(25)), FZero, FOne))),
     strike_efficiency |-> FMul(f.strike_acc, safe_div(f.slpm, FAdd(f.sapm, FOne))),
     strike_safety     |-> FMul(f.strike_def, safe_div(FOne, FAdd(f.sapm, FOne))),
     td_pressure       |-> FMul(f.td_avg15, f.td_acc),
     sub_pressure      |-> f.sub_avg15,
     kd_threat         |-> f.kd_avg,
     durability        |-> clip(FDiv(f.aft_minutes, FInt(25)), FZero, FOne),
     aft_minutes       |-> f.aft_minutes]

\* The keys of the dict matchup_features returns, in insertion order.
FEATURE_KEYS ==
    <<"bias", "strike_eff_delta", "strike_safety_delta", "strike_output_delta",
      "kd_delta", "td_control_delta", "sub_delta", "durability_delta",
      "td_vs_tdd_interaction">>

FeatureKeySet == {FEATURE_KEYS[i] : i \in 1..Len(FEATURE_KEYS)}

\* A variant of the interaction term that leaves the opponent's takedown
\* defence out.
td_offence_delta(a, b) ==
    FSub(FMul(a.td_avg15, a.td_acc), FMul(b.td_avg15, b.td_acc))

\* A variant of the interaction term with A's side only: it does not change
\* sign when the fighters are swapped.
td_vs_tdd_boost(a, b) ==
    FMul(FMul(a.td_avg15, a.td_acc), FSub(FOne, b.td_def))

\* The interaction term, written out in the source as one expression.
td_vs_tdd_interaction(a, b) ==
    FSub(FMul(FMul(a.td_avg15, a.td_acc), FSub(FOne, b.td_def)),
         FMul(FMul(b.td_avg15, b.td_acc), FSub(FOne, a.td_def)))

\* The dict matchup_features compiles from the two records and their
\* feature vectors fa, fb.
Compile(a, b, fa, fb) ==
    LET a_td_effective == FMul(FMul(a.td_avg15, a.td_acc), FSub(FOne, b.td_def))
        b_td_effective == FMul(FMul(b.td_avg15, b.td_acc), FSub(FOne, a.td_def))
    IN  [bias                  |-> FOne,
         strike_eff_delta      |-> FSub(fa.strike_efficiency, fb.strike_efficiency),
         strike_safety_delta   |-> FSub(fa.strike_safety, fb.strike_safety),
         strike_output_delta   |-> FSub(fa.strike_output, fb.strike_output),
         kd_delta              |-> FSub(fa.kd_threat, fb.kd_threat),
         td_control_delta      |-> FSub(a_td_effective, b_td_effective),
         sub_delta             |-> FSub(fa.sub_pressure, fb.sub_pressure),
         durability_delta      |-> FSub(fa.durability, fb.durability),
         td_vs_tdd_interaction |-> td_vs_tdd_interaction(a, b)]

matchup_features(a, b) ==
    Compile(a, b, fighter_feature_vector(a), fighter_feature_vector(b))

(***************************************************************************)
(* Logistic model                                                          *)
(***************************************************************************)

\* A variant of the default weights with a bias that is not 0.
WeightsWithBias == [k \in FeatureKeySet |-> FDiv(FInt(115), FInt(1000))]

\* The dict literal that DEFAULT_WEIGHTS is bound to when the module loads.
DefaultWeightsLiteral ==
    [bias                  |-> FZero,
     td_control_delta      |-> FMul(FDec(220), FDiv(FInt(115), FInt(1000))),
     td_vs_tdd_interaction |-> FMul(FDec(160), FDiv(FInt(115), FInt(1000))),
     strike_eff_delta      |-> FMul(FDec(120), FDiv(FInt(115), FInt(1000))),
     strike_safety_delta   |-> FMul(FOne, FDiv(FInt(115), FInt(1000))),
     strike_output_delta   |-> FMul(FDec(50), FDiv(FInt(115), FInt(1000))),
     kd_delta              |-> FMul(FDec(70), FDiv(FInt(115), FInt(1000))),
     sub_delta             |-> FMul(FDec(80), FDiv(FInt(115), FInt(1000))),
     durability_delta      |-> FMul(FDec(30), FDiv(FInt(115), FInt(1000)))]

\* w.get(k, 0.0) on a dict of floats.
Get(w, k) == IF k \in DOMAIN w THEN w[k] ELSE FZero

\* sum(xs): Python adds left to right, starting from the integer 0.
RECURSIVE SumFrom(_, _, _)
SumFrom(xs, i, acc) ==
    IF i > Len(xs) THEN acc ELSE SumFrom(xs, i + 1, FAdd(acc, xs[i]))

sum(xs) == SumFrom(xs, 1, FZero)

\* A variant of dot whose missing entries count as 1.0.
DotOverOnes(w, x, ks) ==
    sum([i \in 1..Len(ks) |->
            FMul(IF ks[i] \in DOMAIN w THEN w[ks[i]] ELSE FOne,
                 IF ks[i] \in DOMAIN x THEN x[ks[i]] ELSE FOne)])

\* The products of dot for the keys ks, summed in that order.
DotOver(w, x, ks) == sum([i \in 1..Len(ks) |-> FMul(Get(w, ks[i]), Get(x, ks[i]))])

\* dot(w, x), x the features of a matchup: the products are summed in the
\* iteration order of the set set(w) | set(x).  A set of strings is iterated
\* by hash, so the order is the process's own, one for every key set it
\* builds: order[DOMAIN w] is the order this process gives the set built
\* from a weight map with the keys of w and from the feature keys.
dot(w, x, order) == DotOver(w, x, order[DOMAIN w])

\* The two branches of sigmoid, ez the exponential each computes.
SigmoidNonNeg(ez) == FDiv(FOne, FAdd(FOne, ez))

SigmoidNeg(ez) == FDiv(ez, FAdd(FOne, ez))

sigmoid(z) == IF z[1] >= 0 THEN SigmoidNonNeg(FExp(FNeg(z))) ELSE SigmoidNeg(FExp(z))

\* What win_probability returns for score z: the pair (p, contrib); z is
\* kept beside them for the properties that speak of it.
Returned(weights, feats, z) ==
    [p |-> sigmoid(z), z |-> z,
     contrib |-> [k \in DOMAIN feats |-> FMul(Get(feats, k), Get(weights, k))]]

Score(weights, feats, order) == Returned(weights, feats, dot(weights, feats, order))

\* win_probability(a, b, weights), weights already resolved.
win_probability(a, b, weights, order) == Score(weights, matchup_features(a, b), order)

\* sum(contrib.values()): a dict is iterated in insertion order.
SumContrib(contrib) == sum([i \in 1..Len(FEATURE_KEYS) |-> contrib[FEATURE_KEYS[i]]])

\* explain(a, b, weights), weights already resolved: the contributions.
explain(a, b, weights, order) ==
    [contrib |-> win_probability(a, b, weights, order).contrib]

(***************************************************************************)
(* Calibration                                                             *)
(***************************************************************************)

\* np.exp(x): for x > 0 the reciprocal of exp(-x).
np_exp(x) == IF x[1] <= 0 THEN FExp(x) ELSE FDiv(FOne, FExp(FNeg(x)))

\* A variant of the start vector that takes up the vector the previous fit
\* left (a warm start).
WarmStart(D, left) == left

\* `w = np.zeros(D, dtype=float)`; `left` is the vector the previous fit
\* returned.
InitialWeights(D, left) == [d \in 1..D |-> FZero]

\* X @ w
MatVec(X, w) ==
    [n \in 1..Len(X) |-> sum([d \in 1..Len(w) |-> FMul(X[n][d], w[d])])]

\* 1 / (1 + np.exp(-z)), elementwise.
Logistic(z) ==
    [n \in 1..Len(z) |-> FDiv(FOne, FAdd(FOne, np_exp(FNeg(z[n]))))]

\* X.T @ (p - y) / N + l2 * w / N
Gradient(X, y, w, l2, p) ==
    [d \in 1..Len(w) |->
        FAdd(FDiv(sum([n \in 1..Len(X) |-> FMul(X[n][d], FSub(p[n], y[n]))]),
                  FInt(Len(X))),
             FDiv(FMul(l2, w[d]), FInt(Len(X))))]

\* w -= lr * grad
Descent(w, lr, grad) ==
    [d \in 1..Len(w) |-> FSub(w[d], FMul(lr, grad[d]))]

\* One pass of the loop body.
Epoch(w, X, y, l2, lr) == Descent(w, lr, Gradient(X, y, w, l2, Logistic(MatVec(X, w))))

\* build_design_matrix(pairs, feature_keys)
build_design_matrix(pairs, feature_keys) ==
    [n \in 1..Len(pairs) |->
        [d \in 1..Len(feature_keys) |->
            Get(matchup_features(pairs[n][1], pairs[n][2]), feature_keys[d])]]

(***************************************************************************)
(* Bootstrap                                                               *)
(***************************************************************************)

\* random.Random: the generator is a state machine whose state a seed
\* fixes, and gauss() is a function of that state.  GaussStream[seed] is the
\* stream of random.Random(seed): the values its first 400 calls of
\* gauss(0.0, 1.0) return (CPython 3.11), in units of 2^-GaussFrac, cut
\* with the last bit set when the double has more bits than fit (so that
\* rounding it again rounds the double).
GaussFrac == 28

GaussStream ==
    0 :> <<
        252789805, -374891081, -182459457, 99456295, -272824079, -19359571,
        48102691, -223096497, -351392041, 52046345, 266623437, -173672809,
        -89568317, 441756649, -150025829, -138017879, 645350869, -410996853,
        213799671, -537850303, -160245967, 403641263, 327876841, -241892599,
        -121788825, 21537393, -337719533, 148235429, 597960727, -363794869,
        -531913735, 77374841, -31976921, 484346129, -43046895, -13598863,
        -51237319, -265913837, 180665111, -355430681, 313127313, 2248463,
        135192163, -148381643, -247012607, 483254517, 125775375, 324002449,
        50230421, 701048057, 95965689, -276436123, 206295089, 114165363,
        -623078951, -31112805, 263120171, 215061103, -91116499, -325511335,
        131880607, -307580847, 355590721, -82213069, -248254211, -152381661,
        -217671309, -150516407, -197671603, -101739325, 64147941, 160226191,
        -298028659, -255426521, -115199749, 17111577, 26234029, -548677113,
        457421359, -238959637, 487744233, -362993193, -258817857, -67494057,
        -59773895, -207118979, 197271925, -483729849, 283214903, -219572955,
        335973723, -109713495, -375556383, 120558309, 598656971, -14078629,
        29926509, -107206165, -235291257, -201682659, -354527057, -378234059,
        19042279, 434889981, 140417415, 127181447, 66733643, -231965675,
        49744629, -113167293, 251673161, 330237373, 336548591, 98313371,
        280181137, -177768811, -26379557, -56602315, -242399015, -274947397,
        -237555329, -122837635, -516194189, 548723319, 54684637, 12726655,
        166565879, -41618291, 131433385, 129621145, 197850449, -599340035,
        279785963, 40326383, 167336087, 124003429, 70597465, 380855589,
        -99752999, 136766281, -76071079, -1738439, 644607671, 474059795,
        79143965, 240266585, -59118001, -509026931, 142573835, -80160783,
        -326889549, -618707665, 376604799, 143798885, 138667851, -202877201,
        -1562499, 361797677, -155598105, 59003487, -271341301, 48894615,
        -290290393, -134628779, -95021303, 233768563, 106794889, -173877929,
        -39426173, -15782179, -12852273, -242544855, 209065537, 61732559,
        41156845, 662835545, -132505731, 177116319, -412087919, 503250247,
        -249509177, -278563635, -57020265, -259839603, -334452781, 199449231,
        175433117, 1680169, -100449551, 171317539, -170199791, -199023479,
        246631823, -245323099, -233886681, 139500237, -83278497, -266698645,
        -43551269, -70765341, -195811861, 70007527, 180161877, 274972159,
        -343537299, 27546117, 19192785, -556708651, -232043129, 7901355,
        -477950977, 100883829, 347296383, -347225117, 393591649, 958744423,
        -75120353, -83172217, -120845207, -780573611, -329861767, 233952485,
        -75151289, 170199515, -3760057, -18056135, 145211621, -295326137,
        110366829, 77862051, -322976577, -440251635, -139323049, 730787483,
        425623249, 309972283, -88090979, 66838951, -45601901, 291307991,
        140296153, -514849913, 217757695, 242111117, -144695003, -201230715,
        150285927, -156328579, 76821599, 9006465, -144174833, -311435121,
        598368367, -209065991, 66358811, -42199675, -2268519, -417304987,
        -237391207, -351024689, 314285845, -220264397, -232052169, 239612063,
        93471511, 344599835, 153366777, 8582453, -237182293, 410364745,
        -47964963, -239167579, -56584387, -53497445, 391775231, 651760537,
        -66134381, 260765121, -213420439, -67104295, -196848453, 27303491,
        161195575, 50430031, -101841479, -14853585, -196587171, 136932625,
        -105618391, 62712163, 255530987, -165204655, 396644327, -617708977,
        -170165903, 255012465, -88162087, -269005547, -140104551, 414275267,
        474953523, -371289065, -182182471, -186214963, 378244303, -60979139,
        103392045, 45386977, -78153, -95365315, 268258599, 13243759,
        -290790849, -34887535, -355049959, 25433047, -120985673, -254210137,
        -542770331, 590272271, -31876753, 464010223, -229695983, 105942009,
        493244731, 209256811, -172229479, -553696699, -385015027, 120802195,
        198390611, 183761271, 20903373, 75907381, 177298991, -60129389,
        108082233, 141814613, -243172363, 234079427, 466934705, 654144203,
        151285505, -16231545, -336416153, 225836675, 225682417, -218271339,
        205408103, -117939399, -315426571, 3090071, -86805143, -158058253,
        -145513567, -120026451, -369492225, 580448983, 399133923, -293805937,
        148372051, 33623733, -20319581, 469629093, 194600131, -296927561,
        -96854039, -477220619, 103225073, 45719967, 51726441, -55854953,
        12051607, 76372373, 515022323, 49615055, -77064339, 138947825,
        232877647, 315579365, 312165373, -62402985, 257864575, -184663475,
        -361646101, -181052237, 153432575, -425253043, 444237885, -26456999,
        151343727, -101771399, -353759155, -80046677, 141022603, -273803119,
        67901985, -257463041, -448765033, -270710709>> @@
    1 :> <<
        345794461, 389082593, 17806883, -205230623, -293178015, 8411295,
        -274368731, -385695967, 53502401, 35802473, 146691467, -245342207,
        1343595, -17378983, -404217895, 144417517, 86090231, 641322381,
        54484123, -38843231, 330915735, 53362619, 244016159, -98125041,
        58565051, 274955399, 186897387, 34486507, -290529849, 119513309,
        20632883, 193399047, 58044587, 292107547, -13840603, 54214315,
        178986437, -291758367, -107819855, -134225397, 531667483, -24927461,
        175079033, 166262227, -75396387, -416299591, 258998331, -109306051,
        192725023, -350379359, -117570167, 337375411, 384132209, -349626073,
        -357772783, -11882145, 195485791, 43085147, 81484847, -265438757,
        157515701, 299802767, -116949951, -384799023, -203694413, 204456015,
        -465385797, -24662987, -266021761, -35201133, -65638263, 4256523,
        402977291, 112933599, 358015789, -37960187, -128738049, 101686191,
        -761226793, -10707573, 42995251, -331573823, 124652091, -150121135,
        -660109681, -57262219, -262756903, -139746391, -40878537, 335806139,
        27688629, -7646551, 104422577, -486429841, 332893217, -289128319,
        117868685, -302467837, -262123295, -106377717, 508886103, 187277871,
        -162187761, -76318939, -309076245, -9169759, -153832959, 193780309,
        -364285049, -89830101, -226024961, -192926833, 190900975, 33904943,
        157088189, 319189849, 308585275, -368237805, 144140629, -472786901,
        -17142293, 515159395, -51984833, -99104207, 45722837, 4812625,
        7138701, -203282373, 290379169, 238655171, -56969891, 84486045,
        176750569, 277071191, 105429193, 186589917, -70655075, -287058365,
        -132964329, 273578419, 262455425, 39263789, -152309807, 82591755,
        446524285, 363582473, -183491281, -11678543, -389690147, -304826519,
        50533433, 6647935, 258974683, 340275867, 224119719, 354274959,
        -146857479, -303023455, 134360743, 719054461, 95774477, -309169847,
        65066613, 382685201, -277656841, 215657849, -164058575, 341674265,
        210840019, 81621339, 536887161, -109765869, -184171469, 497901987,
        -235262201, 590260821, -10772317, -278279439, -519051, 35029655,
        53994473, -51528971, 290243693, -622739457, -148875059, -70376113,
        488464251, -534914427, -91194357, -306850577, -178456955, 171920351,
        110304207, 386566019, -160939461, 72119689, 314980099, 242503581,
        -90195069, 302820457, -247980901, 484087961, 41438861, -30235269,
        72704861, 227911721, 467477663, -38122373, -98668327, 157446819,
        -233960379, -455312427, 224392801, -101848171, 302475245, -275602547,
        -777456443, 75962587, 41589563, 429609969, 141076229, 83050121,
        157472789, -98569671, 20808973, -362896207, 139358449, -216179081,
        -119677071, 187835949, 245760777, -270361053, 537903165, -158816725,
        224147883, 255362787, 60146871, 46217397, 482433153, 238953509,
        119574677, -489700705, -200546435, 312106471, 52089893, -256366739,
        -172453433, -82187171, 184164333, 103888073, 267730069, -219317755,
        264683849, -134722411, -80240631, 465231325, 19891019, -37415021,
        -56445863, -103306659, 418597533, 369522759, 192448509, 49442717,
        279857761, -20860581, 121499455, 107875847, 23877117, 442494809,
        471171197, 355314669, -513556609, 492830461, 188543063, -120948731,
        -6548253, 305567659, 315374027, 229523863, 37811517, 9612229,
        223353513, -24539675, -241072497, -167334135, -37486501, 89259229,
        607657473, -367704281, 128099937, -24606161, 80775469, 363441229,
        333233493, -42197405, -149685871, -365850595, -19130375, 334733441,
        -71156041, 188950999, 190076539, 106634381, 290995247, -30504637,
        -222648035, -314734139, 248805429, -97183177, -83475539, 223952201,
        -211815819, 475195747, 178826787, -141431261, -170083279, 290363883,
        -317793479, -172079517, 1677291, 54440035, 4077641, 103937695,
        -97676445, -32556471, 339609885, 173388881, -120713175, 460270079,
        -534403467, 22641307, 179365719, 261024167, 29990999, -103269673,
        157226521, -51930547, 127429995, -766815429, 102409737, -212241129,
        252579441, 200737963, 195644369, -108588107, 116533463, -91857131,
        57694187, -36369383, -233900293, 530706129, 194289003, -552074527,
        239880991, -374246617, -62299209, -156187977, -143487377, 64637313,
        -87360659, -388814141, -1591815, 97943879, 475016825, -111248733,
        -319241515, -102111241, 175331575, -237246869, -193554071, 148756847,
        -2986827, 59601649, -168828225, -221763085, -86978117, -41332449,
        -89721229, 115752821, 146886177, 147124511, 128653423, -237777057,
        -300485351, 215209091, 3397387, 32712089, -311336747, -56762637,
        -171166147, -232013625, -169059063, -401092055, 22901925, 312977897,
        -189997079, 25426361, -293161357, 180293363>> @@
    3 :> <<
        25422995, 335550865, -250014977, 266389247, -69566267, -70198821,
        509953621, 42288535, -11522391, 195823259, 302487557, -8279429,
        157838369, -261382141, -98459567, -117608293, -357632039, -404938677,
        -436721061, -64062889, -46285103, -85989999, 18556311, -358518503,
        -21331231, 63914081, 201606411, -227156161, -107339503, -540945133,
        -135197401, -589669757, -381013533, 295684739, -590995273, 214362291,
        88019087, -83842889, 123304065, 141589313, 280628147, -61839519,
        -158972803, -162300191, -264795901, -12058925, -210925453, 286848651,
        -501819583, -293599857, -255865787, -561798773, 510639029,
        -646483629, -76044773, -140985589, 444507615, -532956169, 287718073,
        -196337475, -41667807, -180112001, 171926257, -305383415, -21179155,
        94869189, 493990539, -645662035, 409397249, 254495489, -129812205,
        81853913, -125091875, 442040319, 56261495, -57862787, -61219909,
        -53653857, -47410633, -235950233, 552531217, -512978253, -967911823,
        -32977129, -39343189, 99974593, -54896569, -39759829, 89213333,
        259956971, -120252887, -100077781, 520905459, 142277871, -264529603,
        623828687, 208281035, -158108401, -315254397, 80079249, -223392755,
        -283880927, -347892613, -135875417, 297305397, -116371155,
        -389075275, 179539433, 17633983, 226528707, 322588275, -45296441,
        -38879809, -12210257, -304565687, 179576763, 368349995, 46657795,
        -63737279, -69764521, -209544943, -215802089, -107598131, -226003311,
        -117401783, -423397119, 93977829, 13183787, -309377013, -616932233,
        -2089661, 296338559, -196914339, -129653171, -152576411, 175371705,
        -245871317, 264631365, -81350421, 248225249, 8747953, -62099987,
        -396805357, -184467771, -70133229, 177082043, 65755711, -187028043,
        109986383, 265032821, -39881245, -117850521, -105699893, 217605383,
        144507525, -249549479, 100637475, -128844067, -201650229, 332758491,
        220421703, -194578407, 21295987, 134609975, -171656657, -32329207,
        179004349, -480306571, 87920393, 198320217, 135371659, -360121635,
        85524233, -231788411, 153008077, 162300619, 58099831, -205453305,
        -158672641, 229258895, -241267909, 133090217, 137289943, -74789327,
        642784137, 18833125, 576184971, -541221889, -602279063, 263544553,
        170782299, -83828823, -14373473, -510835513, -168847483, -277436827,
        -59544191, 237844751, 14223087, 99785307, -187404139, -116757649,
        30104749, -75768903, 339492345, -235081419, 507610457, -263258223,
        284436033, -207544071, 442447183, 36624717, 106918519, 199869117,
        -170437117, -279688195, -543981769, 327501577, -186872373,
        -158922833, -8302071, 533855523, -463961421, 66931439, -106276421,
        142773151, -482901971, -106785663, 225639205, 418511601, 428617071,
        -229476377, 14680861, -29497377, -369486691, -386626763, 203186611,
        65923159, -38286107, 326356489, -268907247, 141333711, 2676751,
        -15928745, 131608399, 47226553, 71628781, 71293137, 520364509,
        -83448461, 271726851, 163309229, -93864679, 213600263, -230202571,
        311507329, -217287923, -131494347, 86719141, 223454059, 243604089,
        239822449, -55599503, -256624749, 147588345, 81018147, -255695495,
        261300551, 53446835, -257093741, 118451377, -355706341, -235547919,
        107973095, -418089745, 10111463, -362710287, 197879245, -195227597,
        49029203, -403328095, -92385269, 254273929, 122752007, -493548233,
        248144501, 239495179, -100997981, 380415385, -284302283, -22924597,
        298975331, 351734311, 343633799, -293726619, -477899039, 105050317,
        -384289705, -35277913, -343999703, 284920465, 215702367, 149350271,
        4600791, 12293937, -79880121, 102906183, 66949657, 123297421,
        -115103705, 509659141, 75764009, 374297321, 357212269, -235982377,
        -452787521, 337464863, -104023615, 22000941, -69570513, 35087591,
        -319317805, -27699761, -124501785, -4076809, -626846173, 220339459,
        89068639, -463563769, -197075289, 8357421, 168789691, 79149,
        371385697, 5978325, -268484243, -181568805, 199613689, -164627717,
        225740969, 273909381, 157974537, 273047521, -46671275, -2585927,
        -158829401, -163795395, -420150723, -149114533, -287524819,
        -383242837, 39337139, 122029215, -91740525, 367341499, 252559935,
        280509545, -162075155, -400576425, 149775211, 82733511, 194907675,
        111852277, 338303945, -77347227, 179209733, -240324933, -619840661,
        -119260159, 402334259, -449911765, 272989039, -182417659, -107338135,
        11737761, 56868191, -261504281, 33888007, 119123589, 224125577,
        -202538589, 416460859, 511984863, 648277065, -359913725, 46410275,
        -499019105, 101535067, 149011019, -308499049, -425785031, 50261195,
        168581895, -212746079, -70178541, -678158965, -189832391, 39442767,
        40768513, 424978477>> @@
    7 :> <<
        -68687341, 137286351, -60692227, -84575535, -249649857, -57257805,
        298478049, 113856009, 278335109, 66814317, 105970167, 49748247,
        -447230253, 229579683, 135931647, 133900447, -454022215, -468121401,
        -238804301, -125678601, 81992535, -12324337, 139848135, -172398577,
        82866871, 105805037, -177472705, 461046033, 149413687, 321318647,
        -166519349, -198512287, -92354327, -28567259, 169672347, 66686683,
        -120085915, -256869193, -139744897, 327738569, -216881467, 65701925,
        114492815, -399899877, 13012237, 350642097, -540726671, -86327193,
        -28491517, -219381641, 133517115, -16718131, -393165777, 222223185,
        179673431, 253897473, 386707423, 97239045, 32017411, -348742777,
        165206779, -164217785, -121521241, -339513883, -259741993,
        -142571733, 345969693, -545405025, -391299855, 64250321, 387446249,
        155289093, -510012139, -675983515, 95938085, -197638809, -300590419,
        262361095, 295758483, 42211981, 65975129, 116598379, 427887205,
        166169225, 139223925, 147032185, -420990151, 344062721, 256383263,
        142169785, -529858153, -170102187, 226104149, -486194123, -49398091,
        273677375, -351969513, 432209591, 148166701, -40302565, 87205773,
        174437679, 32317945, 307535827, -177582017, -111329889, 279625069,
        7193787, -236347777, 254062151, 393391509, -119407093, -370439101,
        -36171195, -40001931, -79993671, 377090157, -275666161, 338386151,
        -340462589, -211269299, 169522703, 302980497, 230586687, 92670563,
        38213489, 40931519, 154425621, -47297645, 74473659, 153740109,
        225345, 205079961, 151901753, 539724971, 87226125, -114781109,
        -100005955, -3518007, 247976541, -90345627, 103569377, 493196807,
        -688450905, -301696913, 65470607, 106927343, 64041541, -115736349,
        175864467, 75733713, -140137089, 652312621, 95330251, -148774707,
        -26695517, -60557775, -16842055, -732314833, -130700963, 270735815,
        -313683545, -17904697, 255954649, 229828201, 400251223, -456719667,
        -94858649, -91523065, 167313095, 293074477, -720166579, 292240121,
        -388571979, 183381649, -400542853, 47205109, 320687655, -40082677,
        51298845, 213976249, 37950651, -23751541, 411580289, 281446717,
        -78870379, 736942629, -307852261, 245513515, -71327213, 35531651,
        189248505, 59652299, 171435045, -409988281, -405206295, 165072395,
        -258545889, -275588791, -394637537, 339941307, 200402639, 395425485,
        -251722045, 270143, -306098803, 205631595, 426657459, -238966881,
        418848357, 265222147, -47737129, -529346851, 377589831, -25839729,
        -161820475, 107265569, 110048963, 402141825, -273841963, 305006383,
        399260263, 389831635, -48486039, -199723643, 273421033, 30919821,
        33336861, 382309703, -70715689, -616522479, -103935849, -497658715,
        219790477, 85103377, -164069671, -2576791, 223505807, 21191661,
        356085407, -16451017, 279262737, 400366319, 432152357, -180340141,
        236197487, -503583817, -290809389, -526882835, 286953643, -330694959,
        -3426321, -51597047, -7676591, -158785417, 62723481, 480839597,
        11883249, 142534435, 268574873, -53136179, -338145763, -149087837,
        288190893, -441905311, -160483015, 270424737, 212798625, 2044975,
        216153839, 44554765, -316462709, -419817583, -171517409, 247693477,
        -151812371, -242225043, -206953137, -411180561, -31480747,
        -316648331, 97749689, -633533557, 87988099, -172231077, -521341365,
        194537711, -73956183, -598620941, -234897989, 78121225, -123099725,
        209375277, 200670789, 178841537, 87677809, 358011549, 177122887,
        121122957, -559413827, 240667359, 351496139, -79697973, -126032443,
        520844901, -471945109, 125857825, 650611249, -249000927, 185110073,
        506371501, -32268817, 150645131, 242283305, -243140335, -23916473,
        78598363, 221562573, -9270181, -52436267, -272750841, -96361665,
        239356503, 27311487, -228983079, -225916377, 715831415, 305988043,
        171099537, -696031367, 166827689, 129035179, 452071335, 114826177,
        -18116259, 140242567, -521894481, 277361805, 87210619, -188460831,
        355830609, 485690883, -376454213, -178867735, 78185973, 49248523,
        -106966337, -261512723, 569208635, 278471563, -320573297, -361047831,
        457180073, 265522607, 488813075, 217471213, -234095985, 69971855,
        -579837339, -200821619, -15813259, 140325925, -195300569, -33346185,
        123090325, 101116627, 171260823, 56098103, -86955559, 211837709,
        13249817, -221753349, -168021313, -93535, -29421517, 42142823,
        -133113, 47209493, -36047927, -337807661, 113106235, 282847877,
        116673575, -50800325, 119842111, -259228399, -508994743, 15990767,
        -249778557, 198604643, -291008373, -705585665, -279044747, 423617119,
        -102489551, -367600025, -204911893, 139827667, 133375979, 47440263>> @@
    12 :> <<
        -387939617, 62516781, -74659289, -128834297, 259544623, 17738393,
        -73680353, 483913253, -132776879, -339039265, -368902097, -141227323,
        176752219, 228764957, 305713075, 497245179, 462665969, 179240419,
        364975461, 184838093, -142101081, 233532891, 28535535, -43498733,
        553136145, 222162975, -117061415, -6572069, 647919321, -52491883,
        214103785, 182926215, 153609591, 174389339, -115930607, -110873607,
        -28578565, -82345937, 234527257, 434420709, -226792703, 163647911,
        -251644523, -173271111, -49995899, 44311565, -104117533, -694831065,
        391855125, -58777411, -157986231, 200158229, -147638703, -373677757,
        148323225, 128843017, -209895383, 243199979, 116548641, -293790649,
        491414089, 87813625, -293994417, 137995119, 49306737, 279075887,
        -352351395, 298091131, 271121423, 203865373, 180932549, 372579963,
        210230659, 49559263, -213146089, 317143959, 281883513, 95638141,
        55929951, 211173457, -670300493, 100721625, -665909827, 79772477,
        301923555, 529815555, -114320833, 131005039, -5475023, -591860507,
        211969853, 8894289, 31799429, -243438317, 1867409, 35293107,
        361222657, 92801717, 962787415, -98247571, -59040749, -1335505,
        -207701523, 424265531, 188818597, -333687621, 42176925, 325862885,
        -373196025, 53380441, -51720881, 647907037, 125747239, -98404965,
        -140045577, 527229875, -113986807, 634158837, -412351515, -39428379,
        -52323763, -178823063, -44950875, 200976273, -168140887, -377405457,
        378826115, 412308899, -174982389, 95735659, -687344851, 296011239,
        -349501877, -138204321, 601417023, -330956125, 18287831, -278545717,
        -490414425, -304505589, 86299695, -342970123, -147957303, 210583519,
        -30713765, -344189423, 420007939, 45333217, 394894465, -272721885,
        471586247, -354185443, -462248245, -103122909, -88736943, 83885957,
        -140198547, 185100863, 375578097, -165270583, -361765795, -96803469,
        235061361, 234237049, -82050583, -255907767, 7310077, 274275269,
        -182086213, 365311521, 73516427, 90950989, -158421459, 382617629,
        23816279, -393253927, 234843919, -102140397, 305118475, 57688611,
        -158332033, 58480607, -121660759, -212972403, 17494119, 238456009,
        31366569, -11561407, -138929773, 167270733, 86006977, 272460261,
        111324203, 591241199, -415440523, -2700531, 157034077, 255701195,
        -405011253, -320443379, 231495, 297831397, 310133043, -400756927,
        46992885, 330262071, 19096385, -268563251, -183373109, -351057525,
        335962929, -58775169, -105020883, -226061525, -26343719, -235301031,
        -253980353, 159287, -51028897, 135825209, 51238697, 332622627,
        -956709, 82293197, 72764413, -207796239, 333969999, -141705099,
        -418245445, 350104775, 188628637, -142141437, 270238011, 273103319,
        202195751, -307025701, 59258891, -270409721, -154908707, -141497079,
        -218719883, 144850491, -202981133, 179746287, 57585227, -153319211,
        57309429, 197675723, 321113269, -59082395, 481982273, 166454241,
        348913795, -355401667, -276160533, 339017791, -49840851, 137098577,
        336551181, -380390719, 133353917, 536236649, 227785707, 35478813,
        163875993, 13369415, 220757147, 364127963, -50292841, 166877665,
        93447437, 212494381, 237642705, -279413201, 326547177, 244629275,
        -285273797, -66115747, -383926323, -67180799, 99759383, -302442431,
        -198449327, -226668739, -177227563, -198663361, -278478479,
        165002193, -47298359, -211676675, 278060791, -141982013, 252978221,
        -323994003, 391381679, -110174593, -245483015, 121537901, -350470553,
        -281434077, 74979429, -119723051, 118687803, 49062567, 78972441,
        46199763, 203107595, 10733527, 309237653, 266387417, -520495367,
        -463623795, 431252491, -109232177, 60869869, -19940675, 84670947,
        606924605, -180453777, 28053793, 12045405, -281500893, -225400011,
        -62566401, 5961349, 114496659, -519287005, -412570611, 455404787,
        -38067373, 232633333, -103445723, -181438937, 580977553, -322806967,
        -234902895, 192770357, 15220095, -432353781, 47947081, 207108223,
        -401450101, -140600551, 222491117, 526073039, -617094965, -175903561,
        16634501, -236031833, -234366001, -125427767, 148425245, -277759065,
        243801371, 234108049, 239572281, 423954337, -131006503, -3740653,
        279484775, 351140625, 263077179, -111778091, -121859049, -344984015,
        -107478543, -231581601, -122022355, -92278657, 233763001, 240370497,
        -3682575, -297923843, -4625649, 126142025, 240100727, 66123221,
        227383993, -167236859, 184637859, 208386211, -85639955, -194452097,
        341506089, -258207939, 194500763, -63032015, -83996971, -58655615,
        -109225933, -696457, 489044739, 400896599, -26360697, 136344537,
        254016247, -104875473, 504143935, 18680087, 176452309>> @@
    16 :> <<
        -198074663, 234820015, -253210675, 145585275, -331237231, 211626067,
        -21194111, 380521793, 227187263, 14477393, -75662129, 127821525,
        -9568241, -231099487, 163880097, -651129557, -12515131, 568031971,
        141113491, -372477277, 292184707, 50747277, -157344901, -160841189,
        37113317, 228154989, -24446755, 472049361, -162309991, 230080589,
        -406959487, -511399165, -21505533, 77609995, 500688319, -82903005,
        81928099, -316354353, 14830383, 154816337, -99731313, 281231421,
        381145139, 167021525, -6031153, -43119645, 171290887, -261021359,
        265922661, -148890043, 83737839, -283315447, -239386109, -205830639,
        148136531, 21324469, 30483837, 272377373, -227598589, 244671551,
        -146297301, -228511393, -135594539, 291117107, 448607827, -137189433,
        -277030393, -409867493, 17205405, 122608745, 113909525, 75469503,
        375645525, 21593919, 115020413, -64411045, -246681607, -588214333,
        14938057, -154072913, -133070051, -157504601, 17530075, 36154481,
        -594161515, -95649971, 120274557, 92129659, -57516591, 48606207,
        -423753787, 96239603, -73460535, 18491169, 175193831, 33794167,
        -303789927, -529984729, -125327477, -2240103, 59149275, 272030173,
        103584361, 83783571, -470761271, 207261669, 43487977, 554301405,
        203534013, -200760713, 26959987, 169363123, -248787873, -435736459,
        117531249, -141145083, -50659431, 25177563, -75568543, 211322721,
        76162469, 74981491, 228766807, -9716925, -331888973, 2118147,
        -352752307, 62255813, -311618447, -4781871, 333363581, 181999891,
        -210424751, -375814645, -115773127, 275739511, 150048313, -406267887,
        229353273, 78459817, 200325051, 372479523, -218685385, 153916399,
        49927499, 291114141, -74841023, -371609505, 47706217, 264930863,
        -64887841, -63365007, 47269491, -33287865, -107123751, -107191873,
        396451377, -111643231, 54468697, 313000195, 297259399, -434761893,
        -199450329, -326880921, -28632549, -596062459, -369603327, -32027333,
        95816521, -306315143, 69217825, 347001055, -248267315, 344746695,
        -7098245, -584326091, 44369119, 36130461, 394761693, -181904639,
        492153885, -7944079, 149334423, -45054143, 145075811, 340195385,
        6708289, -134071423, 183807185, -62087667, 82672657, 275266021,
        48208503, 106030191, 60863435, 32868815, 236765669, 328433153,
        86357673, -453939465, -389855369, 222396339, 402449491, 355652823,
        -116015069, 73638553, -130772139, 117874631, -11463213, -259671095,
        174562189, 18665247, 578508371, 318634361, -398264711, 248761061,
        -230346965, -153481991, -38114355, -338477601, 827671797, 232110257,
        -226893429, 317057337, -595959853, 342689991, 45565327, 79275037,
        261733055, 71706671, 169248905, -238421787, 135491315, -62392157,
        158948021, -34387761, 131965079, -117674143, -321912313, -183292757,
        272131423, -49813753, 47768123, -72936885, 261586081, -192105241,
        -688486621, -164040571, -144702503, 341088211, -194979319,
        -117990183, 171951169, 226389969, -75645043, 360500405, -93389911,
        60499271, -225693305, -565669919, -167505609, -151259653, -221193023,
        637890727, -405024979, 148054737, 439214131, 222348463, 163663655,
        -129437217, -136301239, 364395505, 450963105, -137487127, 131407063,
        18110529, 208187347, -175261615, 280592413, -85729175, 96094315,
        -162069579, 296987333, -67202285, 178172799, 4600743, 242973117,
        138434525, 688670757, -189379931, 247342087, -120688673, 53523027,
        -439301661, 347372049, -616333947, 227063307, -396016433, -67240093,
        149307195, -193623023, 109640205, 2543511, -157022539, 127504737,
        415857107, 108772109, 27540447, 53401813, 162463, 358835157,
        255521237, -15149665, 126646215, -252466283, 3606167, 99020759,
        2224605, -6855153, 279938821, 206409701, 189120231, -613032895,
        62406493, -177289083, -144725725, 29092987, 167864045, -505726867,
        433800791, 149074433, -29933255, -279699713, -360199977, 403910403,
        -204066515, -78411379, -87039723, -56037085, 633663961, 472448691,
        -297715513, -243268703, 400452181, 63806177, -261889349, -151813707,
        256276851, -51172163, -12496817, 1005288083, 136632189, -229829351,
        152399349, -278473003, -175634743, -106627233, -313239053, 79211493,
        9619149, -20857107, 253221735, 313474567, -28121515, 347437013,
        373642653, -111009511, 257703387, -288407141, -316308619, 10763983,
        277311555, 626155703, 38869597, 353250273, -348767487, 105710747,
        361923883, -139935081, 64005735, 125186309, 529719151, -281965629,
        -226845971, 234061091, 269684019, 141231203, -111603671, 59286551,
        622980533, -44410073, 294790761, 380354007, -216581947, -92814737,
        223447239, 1519763, 77206421, -149405537, -22584301>> @@
    23 :> <<
        582501375, -297420753, 87482721, -70147051, -236028245, -154039875,
        -139317697, -26656125, 103758361, 271986561, 53524351, 290890669,
        112309619, 17619567, -69802759, -271921963, -435612637, -34652309,
        -58464915, 71586319, 73930179, -350313277, -204482347, -313060737,
        250550795, -46596613, 15821513, -256973225, -354842539, -172584329,
        -44739249, 104481171, -421407403, 69280679, -246269987, -157614295,
        -106497165, -132722363, 102996991, 213767291, 71231443, -162158569,
        92103357, 80484089, 209122665, 52201941, -446464145, -219841339,
        -125380635, 225359447, -54809125, 222232431, 58414855, -333680691,
        -6756231, 127609623, 88696945, -411238053, 93786707, -174300923,
        -577066775, -169538501, -540725767, -356143163, 362219719, 632817293,
        261495557, 95854925, 483624303, 71506925, -278390177, -668589773,
        221569215, -615872433, -776613435, -192114781, -1532409, -247441475,
        257771069, -41838383, 37184041, 99947497, -173589909, 37706533,
        601579519, -266732509, 26641097, 122622993, -160994583, -29632841,
        -473070045, -133093391, -5405739, 280909461, 236484285, -169848573,
        -311970707, 473138477, 222331621, -524999315, -105577827, -255998339,
        -177016879, -473157567, -126754541, -152267193, -77306205, 264518387,
        46492273, -339417815, -477925865, -155080041, 294501227, 238828607,
        -170275477, 298514645, 103635831, -174363677, 103598409, -32572055,
        -310234773, -127411559, 32234899, 342862603, -288397135, 53650625,
        -4708899, -23389077, -337635411, 328523447, 339059757, 419763503,
        116676811, 388722045, 136123623, 259712779, -98025761, 51862359,
        -95609919, -291801249, -124929741, -309888523, -308058495,
        -112815727, -169942565, 548791133, 470207263, 283654085, 206061895,
        -238328925, 67668533, -395820557, -176069847, -136704147, -105474049,
        225433417, -219036345, 644084445, -144227331, 223285629, -432511649,
        239336703, -337679859, 47498885, -7462419, 216566217, 159212353,
        99764097, -45752431, 522980635, -129820109, -2014819, -132568859,
        31630721, -265417381, -116895287, 130831251, -161664779, 119902085,
        -163165279, 378419757, -41503557, 469634879, 129047449, -40850163,
        251305721, 309570423, 407402023, 370542949, 236376941, -321075643,
        246717125, -28970859, 104439185, 337185433, -198925265, 354858813,
        642446989, 144961061, -89689277, 366222663, 44161953, 279417309,
        334115495, -413779759, 81966419, -417112409, -195610803, 158705839,
        -328502343, -200520893, -129739177, 78715203, 88262397, 113528737,
        -142726295, -209791111, 104309221, -242108833, -226325655, 181797459,
        -222475107, -251924855, 297206327, -19972821, -611387201, -212110753,
        518234627, 757696735, -88792941, 180674549, 190459695, 76011331,
        -500459797, 260888519, 66139123, -73134987, -446419855, -180118051,
        -40370237, -77709939, 51531117, -113687001, 259656267, 158445097,
        -321176425, -173194945, 103361089, -159553067, 366941527, -155893949,
        55618409, 153096659, -316361617, 325931139, -67456165, -202939327,
        -198070921, -467642371, -378446939, 392088851, -46306669, -87454889,
        40992637, 143631137, -225703201, -68071233, 61980925, 261019059,
        56845749, 435421657, -69722703, -102093637, -385583993, -23367327,
        161472459, -77850567, -58339831, -274524885, -169600063, -131695159,
        -36026223, 276930293, 125247325, 234546851, 304642049, -136572333,
        347902391, 484595, -366591131, -174486461, -35087445, -425135685,
        607425657, -25560099, 218078091, -337023159, 14229979, 56861949,
        -217239435, 55369923, -13172585, 87467977, -337472141, 125843163,
        -90031127, -242644743, -604182489, -65260991, -113676481, 623877867,
        -338220283, 385988803, 322615993, 97091061, 52844191, 120449733,
        -410977307, 365877265, -100866039, -213346559, -15709455, -752838401,
        -370898869, -331325955, -436499555, 141835405, 413827583, -11758097,
        -102238841, 71322487, -151076293, 19440799, 93409013, -77576945,
        -126898443, 2396775, -368845, 165394949, -421680701, -317075271,
        -147504347, 113366605, -364601899, 306948041, 368066103, -215850529,
        282359479, -579409533, -45361147, -451713109, 269597267, 207701795,
        117273669, -176768087, -324306615, 90625229, -159303351, 159750163,
        -450890787, 91811895, 115229619, -633701703, -365624195, -214305467,
        -185920677, -488417323, -21084383, -329753519, -46480285, -518674823,
        -344377029, 159795693, -487650293, -36943355, 361579947, 189357573,
        -382951373, 569215819, -177793715, 222372481, 229841373, -113963085,
        141771095, -769652473, -3868735, 14051557, -121851395, 3678041,
        257866347, 223546361, -196709729, 182678767, 285951553, 1308069,
        75047643, -687053895, -452347079, 71044903, -432432223>> @@
    42 :> <<
        -38678953, -46413457, -29881125, 188437321, -34249219, -401942747,
        89206027, -71762857, -58239403, 31107585, 62356949, 312340407,
        176264521, 29664045, -198191697, -272371355, 66126979, 351940579,
        11182179, -28540941, 142747593, -390183095, -83826305, 131630691,
        234452705, -64593535, 101092755, 66629291, 210004253, -298828313,
        152538633, -406550971, -703286245, -162910989, -245835887, 235152745,
        178312519, -327242885, 227461851, -269026773, -23150907, -78893121,
        30714347, 219751011, 171372897, 93921567, 174469115, 128444229,
        -168305129, -192567837, -126156147, 134036911, -67139887, 626999249,
        -219927167, -294976905, 206285539, 381674949, 135745849, 224363011,
        382881565, -25240309, -381972631, -142828211, 255791007, -387534471,
        9000995, 67977887, -84716127, 194248483, 155901875, 623148353,
        166421331, -163585495, -150806393, -223225853, 255623987, -152158031,
        -18860483, 201139391, -194203117, -78828209, -494266519, -290575641,
        -152400583, 111604991, 320375911, -4957147, 70159439, 45088935,
        291182975, 239808211, 73468989, -271373295, 242500649, 102286559,
        329354615, -8027989, 524281537, -96335135, 427633899, 30902013,
        -138584907, -302915419, -40541955, 382069829, 219143861, 184920855,
        -637768437, 190848001, 149210495, -147619713, -168412209, -620207,
        463017947, -283226437, -114838039, 365551311, -119762693, -97778011,
        26246639, -333206079, 59041151, -324704251, 237618613, 853845,
        612953967, 75387551, 366599481, -349842259, -32786531, 86743751,
        468613391, -451217437, 265917445, 158740385, 411658173, 191229531,
        13977753, -140029261, -335055691, 52458399, -51458209, 542311385,
        -164020729, 86004531, -421175611, -106156177, 70101351, 221180081,
        388721837, -11850935, -299908139, 122903281, 138777667, 131978531,
        -187982047, 304240557, 23594379, 187857741, 342006431, 163550293,
        76911061, 577886571, 65418537, -79447293, 30055923, 398027683,
        31866641, 139419377, 320976715, -137669435, -463472543, 80375791,
        61668965, -163211489, 233830469, 163092625, -267091245, 139108205,
        -52641525, -398096565, 121587903, -12137209, -200060355, 140377137,
        131021541, -155031457, 107468723, 272479419, -191304993, 102244389,
        739741, 608277511, -499908147, 186638859, -82207021, -26896575,
        510453905, -2301337, 601548745, -118688191, 94089859, -131760873,
        -185405151, 16772687, -75852217, 54355921, -565064115, 537533327,
        -44827891, 467857635, -270344603, 78526955, 849582677, -233466149,
        -401391477, -146702537, 126832647, 186117049, 346380171, -68991241,
        -430100913, -116777423, 332919745, 125000367, -525311755, -9409069,
        375317889, 570840919, 150776609, 83027707, -332915175, -226356285,
        12593879, 135076115, 155742007, -128368131, -309222137, -208784223,
        -310572949, 172713837, -620698233, -89463639, 120763295, 408562179,
        19139361, 268780111, -107106839, -199824423, -181031003, 409991077,
        266884207, 130834885, 893962241, -8681571, 166523841, 82568479,
        -59561987, 621742511, 404426147, -375669953, -107332929, 114980713,
        210234143, -361971005, -605472703, -511736487, -19088839, -27703393,
        92669121, -206607999, -328628799, -543057023, 88365559, 99335603,
        266554709, 212277601, -51194823, 362189481, -36605715, -177391917,
        -139741711, -156984181, -581360523, 41963455, 67078153, -97244989,
        -191620361, 99805329, 460868939, 10269039, -136266859, -158765399,
        -18725101, -339507923, -33624409, 16423489, 495177165, 253261811,
        277570109, -191380667, 179830695, -305850655, 83741311, 112403927,
        -205731461, 536704429, 152303207, -510759739, 148407195, -109363777,
        369425, 125027785, 104832815, -547380521, -310934089, 207399719,
        349289355, 510873713, 484034289, -551778905, 206556285, -514400233,
        433147647, 68007963, -306330163, 539528677, 172864615, -507651415,
        78777247, -196263875, 29875653, -124874729, 368694457, -382060531,
        85202801, 486992475, -221985465, 56545573, 54224403, -185140521,
        173917621, 26051737, -253340661, 472987597, 212497533, -44857429,
        -170906081, -210550739, 330428201, -39319951, 123329503, -49514719,
        165466157, -31132911, 205045463, -49180305, 222690645, 180491735,
        -31302205, -230794695, -252361539, -198840027, -264271389, 232410457,
        -12509713, 421470771, 611852941, 6502171, -415542703, -102395653,
        -20226187, -399550699, -67241277, 77026563, -123326723, -206272763,
        -203677217, 479609261, -42854669, -222782669, -100099149, 256179689,
        -183794547, 129344903, 195390129, 201089787, 375727677, -147768881,
        304065663, -212830017, -106445363, 321072205, 220754717, 563057,
        -319817713, 150769411, -169214383, -248003445>> @@
    58 :> <<
        -159235019, -88529285, -407826543, -505586961, 283483605, 75081329,
        -133870981, 176110519, 501149563, -489174307, 92933287, -263867759,
        87439419, -90985575, -301825035, 19659709, 305245059, 151782363,
        -183659157, 179890849, 320554123, 236445453, 47251007, 53386901,
        156376387, -170528405, -329302989, -279421155, 41890179, -592306055,
        158839577, 245937325, 292609429, 311946523, 29719085, 207804763,
        -1542711, 427608053, -500520001, 67821429, -302131405, -190143235,
        -115671097, -212082395, -177995787, 129439221, 162130167, 557915239,
        -227851605, -188129789, -122226397, -114691243, 227912135,
        -214058389, -123527155, 394734859, -417448033, 36353881, 468666471,
        478510193, 103608841, -95087857, -70308965, -7933745, 170445053,
        65836163, 604989691, 280074447, -340069559, 20525375, -43928607,
        -212831737, -416619653, 39508571, -190018555, -135853479, 528345671,
        209377369, 751627689, -66409945, 123766207, 132039821, 142944611,
        490755841, -378336187, 230721513, 19835339, -309580093, 252953279,
        834732219, -406363795, -198689659, 336040691, 95308235, 34383933,
        -251005315, -456376075, 255987009, -386409487, 616259, -59441949,
        66811893, -364101387, -67159843, -50962711, -266572885, 171796409,
        -458038795, 118716829, 68055403, 162789717, -471372355, 34138331,
        -136177707, 126090241, -53292359, 191614791, 331338785, -16271607,
        -71360053, -40908521, -122503343, -153897213, 123661113, 38385597,
        -296105381, 484596843, 197117171, -426239147, 370389765, 69611883,
        113900691, -98146503, 263429465, 369156745, 57708035, 104632851,
        -336862897, -510519989, 28323893, -93641473, 105872767, 13930007,
        548366199, 192242863, 199387097, -271482245, 523364157, -188544567,
        -218164651, -71408419, 197529697, 232232549, 143976563, -354181203,
        -214211899, -61254883, 141099451, -427903859, 538613003, -77084831,
        -861457399, -282025005, -164894847, 148440909, -100240999, 16688847,
        188767311, 24604721, 139813143, 269853027, -123397089, -303067633,
        -106093, 97522619, 131782537, 516129113, 101855417, 144332649,
        187373591, 486193209, -29013275, 62996963, -136740135, -705425875,
        155849535, -417419071, -406510105, -256220429, 154513217, 375576105,
        -195692653, 442829103, 369358371, -7713965, 39982201, 16505855,
        -490736751, 256609183, 177741383, -28335539, 245376653, 50950605,
        -156034981, 269260809, -184106453, -283236483, 86804737, -142594187,
        -98287667, 76070351, 310146919, -610003757, 118118399, 319022839,
        16244685, 181020191, -549330069, 129641565, 275671013, -813706703,
        -83849989, -204938891, 140343439, -197667085, 381036109, -511259153,
        -157096627, 72629559, -260819823, 364838625, -93562245, 231043693,
        -7471581, -351575711, 487513805, -155087817, -55973493, -212970939,
        -30836853, -445329083, 70171233, -372630113, 435699575, 168235975,
        -115941953, 238085645, 647534535, 164716175, 207722561, 289868671,
        2935295, -148960041, 84110311, 198551451, 162979197, -150288119,
        -283757903, -7131069, -131126777, 203618479, -343226631, 124506297,
        184883289, 95402031, -252242861, -283787359, 340444301, -114032833,
        246440141, -159240029, 217269169, 78643493, 360560187, 20124289,
        25683603, 280185651, -601137587, -63544311, -698170019, -122255985,
        -401861727, 11572965, -59575343, 179355597, 71983425, -222714507,
        -240864297, 411396757, -46885731, -89363589, 32614975, 81975193,
        -108640019, -216479149, -657243015, 13245499, -107913241, -116215343,
        179904353, -86751347, 171277897, 222942421, -124256007, -175912053,
        59784481, -116496279, -20282227, 251808627, 676255523, 329853385,
        253331805, -70247575, -370755331, 94625449, 92834261, 40053677,
        -186746915, -358935647, 159033147, -222021203, 81935339, -290493667,
        40803775, -198653629, 194393035, -101817847, 322354957, -184769277,
        -229623469, -511430417, 32829383, -286097035, -322714697, 286907961,
        -316100663, 114430597, 140086603, -308533383, 81668679, 29598697,
        596580711, 522477657, -533613481, 440677365, 28588153, 71588361,
        301086489, -339124223, 85287865, 496390639, -189912123, -58985033,
        -301887925, 496178747, -166942831, 116511757, -169284639, -261388639,
        -35569303, 278317417, -404405839, 168555805, -116135117, -169894961,
        220678957, 224962701, 436708817, 80749089, 220792963, -223572539,
        -435176473, -25592373, -25335653, -195326023, -381592863, 105330245,
        -339719713, 60716371, -453610117, 199381777, 55472273, 279749531,
        62071007, -153327179, 197231989, 92442655, -10108879, -1305299,
        366755821, -523838421, 235872157, -113359619, -236446631, -190510537,
        136965475, -200458219, 198943119, 316721729, -19475007>> @@
    12345 :> <<
        -33232523, 19199837, 102909885, -201325803, -119280495, 129588457,
        -145910475, -64241485, 203109993, 201247387, -153679527, -63179823,
        -237420419, -82490831, 113405531, -30592105, 274203937, -37023155,
        -151964967, -3758351, -33761261, -170947905, -31865885, 49140943,
        -374706285, 594415949, 439542315, -58901687, 637054119, 13830043,
        317046713, -334376655, 53113063, 110828483, -480231135, 285915343,
        -386742327, -206596337, 35624345, 324948023, -126476205, -484825161,
        68563935, -182751909, 131035555, -134050449, 109440925, -323631951,
        140379593, 329086853, -673160453, -77484669, 155300285, 41479327,
        504403469, -53145295, 113556827, 156861583, -152155945, -38190077,
        -38165987, 76369255, -25895089, -105456317, 603826687, -20479077,
        111565939, -448186469, -272714181, 298756169, 21723173, -306568321,
        348747499, 141959345, -168826337, 327460955, -582412123, 316247067,
        137590643, 438356741, -108725491, -324612341, 141220625, 77690177,
        190295603, -39680263, 114435219, 189518093, -316252697, -75128511,
        21436715, 448831, -171573655, 4241305, -374963501, -300405643,
        262371479, 180419869, -394411899, 263938827, 267561057, -78111439,
        23305573, 550633423, 236925377, 41006129, -132651851, 103195833,
        -138256779, -293498843, 1845133, 277187141, -84982841, -222291799,
        271641049, 123074115, 126575341, 352023973, 43043567, 138028831,
        188962457, -148559965, -87664219, 321994017, -139406119, -375202839,
        62360493, -198727335, -228882589, 113243359, -348775473, -36702919,
        -69266067, -73102971, -290896611, 305063529, 433653295, 97869753,
        -106655227, -250346371, -199701233, 66038469, -24636893, -306179955,
        -6219495, 65228901, -340177751, 500073195, -168409827, -336485127,
        61236363, -27012127, -138547065, -103964767, -135642457, 102585813,
        -337053775, 469289425, -80003385, -513306679, 202036439, 103717367,
        16430651, -75371495, 41019581, 103078153, 80374211, -177841579,
        -39863879, 20535611, 243663917, 211216991, 62923643, -236953753,
        -32707267, 70251511, 123361235, 89173283, 94629589, 335594229,
        -468003905, 573796033, -112453789, 516644011, 275593229, 179237285,
        -374021651, -120162679, -276309483, 175019675, 26762071, -151581943,
        -350486775, -70562289, 31757061, -157342253, -51457651, 30612767,
        -282112243, -460729243, -299233637, 393228411, -27184493, -41685451,
        -80709489, 15270067, -186504591, 444546655, 244326535, 245743435,
        121348005, 45174191, 115452901, -35784697, 292298745, 565859739,
        -67766577, 174836437, 259493053, 179842619, 176444639, 68441297,
        77361109, 437069855, 187525261, 304424041, 44676935, 855022471,
        608135069, -35812903, 275960971, -200276145, 348000709, -161477321,
        234939977, 367092765, 26755703, -37175405, 159486979, 442286687,
        38957461, -342035663, 151528601, 146491005, 67555607, 750658329,
        39855109, 255001651, -148014479, -367304989, -359976899, -148293055,
        393205617, -445968781, 51571117, 41822445, 504683999, -304534281,
        -183119025, 200031063, -111686479, -257691797, 155765435, 130563913,
        -114888581, 327353465, 205968255, 381502583, 259864999, -49929047,
        -345104467, -163228285, 112262457, -361025059, -426309995, -44410549,
        629288565, 94629601, 332028197, -245618297, 112629685, 359025535,
        266098333, 47517283, 74382663, 336435581, -317129, 118123525,
        55573235, -196508315, -45628321, -17969515, -436544551, -183923445,
        52238557, -233752003, 254668501, 265802045, -76567521, 206515829,
        66554131, 259986709, -112394099, -247702431, -262300937, -344581463,
        129226057, -324337635, 316418095, -19275143, -382713295, -91076835,
        410900825, -74897379, 136732985, -78751577, -369306549, 197031365,
        -54773513, -502376133, -23943433, 232144523, -228658897, 139681953,
        222805657, 146753867, -275518501, -343409397, 47134975, 370781665,
        1082945, -156075801, 157940775, 14251929, -256374959, -535453563,
        -176303189, 151033071, -163120083, -167826969, 195304177, 49114217,
        -239691799, -175396203, -153190811, 219727663, 298579459, 347901169,
        -288722619, 292254233, -524708339, -238075053, 41141791, -136955393,
        -38334583, 12077573, 6218305, -194344727, 189796045, -28121971,
        -311816157, -16103985, 168584887, -319219973, 172847955, -160084817,
        140787441, 98926175, 403156319, 120662861, -175962817, -414168713,
        26762683, -136212353, 362245477, 154471327, 243390099, 1753373,
        -332538859, -204247497, -490243319, -435488765, 228554593, -36756167,
        -22184759, 51272893, 208809157, 198721713, -123808215, -152987859,
        330919807, 238632931, -148468427, -279214961, 112496401, 137650115,
        -59630719, 522071879, 74617693, -37342679>>

\* random.Random(seed): a generator that has drawn nothing yet.
Random(seed) == [seed |-> seed, drawn |-> 0]

\* A variant that keeps drawing from the generator the previous call left
\* (a module-level generator seeded once).
AmbientGenerator(seed, left) == left

\* The generator a bootstrap call draws from: a new one, made from the
\* seed; `left` is the generator the previous call left behind.
NewGenerator(seed, left) == Random(seed)

\* The state of generator s after n draws.
AfterDraws(s, n) == [s EXCEPT !.drawn = @ + n]

\* The standard normal variate the next gauss() call of generator s is
\* built from.
Variate(s) == Round(GaussStream[s.seed][s.drawn + 1], 0 - GaussFrac)

\* rng.gauss(0.0, sigma) in state s: mu + z * sigma.
gauss(s, sigma) == FAdd(FZero, FMul(Variate(s), sigma))

\* A variant of jitter without the floor at 0.
jitter_unfloored(v, s, noise) == FMul(v, FAdd(FOne, gauss(s, noise)))

\* jitter(v) with the generator in state s.
jitter(v, s, noise) == FMax(FZero, FMul(v, FAdd(FOne, gauss(s, noise))))

IndexOf(k) == CHOOSE i \in 1..Len(Fields) : Fields[i] = k

\* The jittered copy of record f; its ten draws start in state s and are
\* made in constructor order.
Jittered(f, s, noise) ==
    [k \in FieldSet |->
        LET v == jitter(f[k], AfterDraws(s, IndexOf(k) - 1), noise)
        IN  IF k \in PctFields THEN FMin(FOne, v)
            ELSE IF k = "aft_minutes" THEN FMin(FInt(25), v)
            ELSE v]

\* list.sort(): ascending.
RECURSIVE Insert(_, _)
Insert(xs, x) ==
    IF xs = <<>> THEN <<x>>
    ELSE IF FLt(x, Head(xs)) THEN <<x>> \o xs
         ELSE <<Head(xs)>> \o Insert(Tail(xs), x)

RECURSIVE Sorted(_)
Sorted(xs) == IF xs = <<>> THEN <<>> ELSE Insert(Sorted(Tail(xs)), Head(xs))

\* int(x) for a float x >= 0: truncation.
int(x) == IF x[2] >= 0 THEN x[1] * (2 ^ x[2])
          ELSE IF 0 - x[2] >= 31 THEN 0 ELSE x[1] \div (2 ^ (0 - x[2]))

\* xs[i] with Python's indexing: from 0, negative indices from the end.
\* i is in range whenever the caller below uses it.
At(xs, i) == IF i < 0 THEN xs[Len(xs) + i + 1] ELSE xs[i + 1]

\* The rank of the lower bound and of the upper bound among n sorted samples.
\* A variant of the lower rank with the factor 0.5.
LoRankHalf(n) == int(FMul(FDec(50), FInt(n)))

LoRank(n) == int(FMul(FDec(5), FInt(n)))

\* A variant of the upper rank without the `- 1`.
HiRankInclusive(n) == int(FMul(FDec(95), FInt(n)))

HiRank(n) == int(FMul(FDec(95), FInt(n))) - 1

\* The list ps after the loop: one probability per iteration, the
\* generator starting in state s.
Samples(a, b, weights, iters, noise, order, s) ==
    [it \in 1..iters |->
        win_probability(Jittered(a, AfterDraws(s, 20 * (it - 1)), noise),
                        Jittered(b, AfterDraws(s, 20 * (it - 1) + 10), noise),
                        weights, order).p]

\* The records aa, bb the loop builds, one pair per iteration.
Copies(a, b, iters, noise, s) ==
    [it \in 1..iters |->
        [aa |-> Jittered(a, AfterDraws(s, 20 * (it - 1)), noise),
         bb |-> Jittered(b, AfterDraws(s, 20 * (it - 1) + 10), noise)]]

\* A variant that returns zeros for an empty list instead of raising.
SummaryOrZeros(ps, s) ==
    IF Len(ps) = 0
    THEN [ok |-> TRUE, err |-> "", ps |-> ps,
          mean_p |-> FZero, lo |-> FZero, hi |-> FZero, rng |-> s]
    ELSE [ok |-> TRUE, err |-> "", ps |-> ps,
          mean_p |-> FDiv(sum(ps), FInt(Len(ps))),
          lo |-> At(ps, LoRank(Len(ps))),
          hi |-> At(ps, HiRank(Len(ps))),
          rng |-> s]

\* What bootstrap_probability returns for the sorted list ps, or the
\* exception the mean of an empty list raises; s is the generator's state.
Summary(ps, s) ==
    IF Len(ps) = 0
    THEN [ok |-> FALSE, err |-> "ZeroDivisionError", ps |-> ps,
          mean_p |-> FZero, lo |-> FZero, hi |-> FZero, rng |-> s]
    ELSE [ok |-> TRUE, err |-> "", ps |-> ps,
          mean_p |-> FDiv(sum(ps), FInt(Len(ps))),
          lo |-> At(ps, LoRank(Len(ps))),
          hi |-> At(ps, HiRank(Len(ps))),
          rng |-> s]

\* A variant of the loop body that stores the jittered values in the record
\* it was passed.
Overwritten(f, jittered) == jittered

\* The record f the caller passed, after an iteration has built its
\* jittered copy: `aa = FighterStats(...)` is a new object and f keeps its
\* fields.
Kept(f, jittered) == f

\* The record f after the loop; its last jittered copy took its draws from
\* state s on.
AfterLoop(f, iters, noise, s) ==
    IF iters <= 0 THEN f ELSE Kept(f, Jittered(f, s, noise))

\* bootstrap_probability with its generator in state s when the loop starts:
\* what it returns, and the two records as they are after the call.
Bootstrap(a, b, weights, iters, noise, order, s) ==
    Summary(Sorted(Samples(a, b, weights, iters, noise, order, s)),
            AfterDraws(s, 20 * iters))
      @@ [a_after |-> AfterLoop(a, iters, noise, AfterDraws(s, 20 * (iters - 1))),
          b_after |-> AfterLoop(b, iters, noise, AfterDraws(s, 20 * (iters - 1) + 10)),
          copies  |-> Copies(a, b, iters, noise, s)]

\* bootstrap_probability(a, b, weights, iters, noise, seed), weights already
\* resolved; `left` is the state of the generator the previous call made.
bootstrap_probability(a, b, weights, iters, noise, seed, order, left) ==
    Bootstrap(a, b, weights, iters, noise, order, NewGenerator(seed, left))

(***************************************************************************)
(* Round adjustment (mma_round_demo.py)                                    *)
(***************************************************************************)

\* The argument None (f1, f2, weights, base_weights).
NoArg == [kind |-> "none"]

\* fatigue_factor(fighter, round_num): the factor, or the exception the
\* division raises when aft_minutes / 15 is 0.
fatigue_factor(fighter, round_num) ==
    LET base_endurance == FDiv(fighter.aft_minutes, FInt(15))
    IN  IF base_endurance = FZero
        THEN [ok |-> FALSE, val |-> FZero]
        ELSE [ok |-> TRUE,
              val |-> FMax(FDec(50),
                           FSub(FOne, FDiv(FMul(FInt(round_num - 1), FDec(15)),
                                           base_endurance)))]

\* `fatigue_factor(f, round_num) if f else 1.0`
FatigueOrOne(f, round_num) ==
    IF f = NoArg THEN [ok |-> TRUE, val |-> FOne] ELSE fatigue_factor(f, round_num)

\* A variant whose early branch also takes round 3 (`round_num <= 3`).
ScaledThroughThree(round_num) ==
    IF round_num <= 3
    THEN <<<<"td_control_delta", 130>>, <<"td_vs_tdd_interaction", 130>>,
           <<"sub_delta", 130>>>>
    ELSE <<<<"durability_delta", 150>>, <<"strike_output_delta", 130>>,
           <<"strike_safety_delta", 120>>>>

\* A variant whose late branch multiplies all three keys by 1.3.
ScaledByOneLiteral(round_num) ==
    IF round_num <= 2
    THEN <<<<"td_control_delta", 130>>, <<"td_vs_tdd_interaction", 130>>,
           <<"sub_delta", 130>>>>
    ELSE <<<<"durability_delta", 130>>, <<"strike_output_delta", 130>>,
           <<"strike_safety_delta", 130>>>>

\* The keys round_num scales, in the order of the statements, each with the
\* literal it is multiplied by (in hundredths).
Scaled(round_num) ==
    IF round_num <= 2
    THEN <<<<"td_control_delta", 130>>, <<"td_vs_tdd_interaction", 130>>,
           <<"sub_delta", 130>>>>
    ELSE <<<<"durability_delta", 150>>, <<"strike_output_delta", 130>>,
           <<"strike_safety_delta", 120>>>>

\* w[k] *= c * f1_fatigue for the statements i.. of the branch.
RECURSIVE Scale(_, _, _, _)
Scale(w, stmts, i, f1_fatigue) ==
    IF i > Len(stmts) THEN w
    ELSE Scale([w EXCEPT ![stmts[i][1]] = FMul(@, FMul(FDec(stmts[i][2]), f1_fatigue))],
               stmts, i + 1, f1_fatigue)

\* Which dict a name refers to: the module's DEFAULT_WEIGHTS, the map the
\* caller passed as base_weights, or a dict made during the call.

\* A variant of dict.copy() that hands back the dict itself.
Alias(obj) == obj

\* d.copy(): a new dict, whichever dict obj is.
Copy(obj) == "new"

\* The dict base_weights names after `if base_weights is None:
\* base_weights = DEFAULT_WEIGHTS.copy()`.
BaseObject(base_weights) ==
    IF base_weights = NoArg THEN Copy("DEFAULT_WEIGHTS") ELSE "base"

\* A variant of `w = base_weights.copy()` without the copy: `w = base_weights`.
WrittenIsBase(base_weights) == BaseObject(base_weights)

\* The dict w names, which the statements of the branch assign to:
\* `w = base_weights.copy()`.
WrittenObject(base_weights) == Copy(BaseObject(base_weights))

\* What the call leaves behind once w, the dict `written`, holds its final
\* entries: the returned map, the dicts DEFAULT_WEIGHTS and base_weights as
\* they are after the call, and the two fatigue factors it computed.
Adjustment(ok, err, w, base, defaults, written, f1_fatigue, f2_fatigue) ==
    [ok |-> ok, err |-> err, w |-> w,
     fresh      |-> written = "new",
     defaults   |-> IF written = "DEFAULT_WEIGHTS" THEN w ELSE defaults,
     base_after |-> IF written = "base" THEN w ELSE base,
     f1_fatigue |-> f1_fatigue, f2_fatigue |-> f2_fatigue]

\* A variant in which a statement on a key the dict lacks does nothing.
MissingKeySkipped(w, stmts) == FALSE

\* `w[k] *= ...` reads w[k] first: a statement whose key w lacks raises
\* KeyError.
MissingKey(w, stmts) == \E i \in 1..Len(stmts) : stmts[i][1] \notin DOMAIN w

\* round_adjusted_weights(round_num, f1, f2, base_weights); defaults is the
\* value of the global DEFAULT_WEIGHTS when the call is made.
round_adjusted_weights(round_num, f1, f2, base_weights, defaults) ==
    LET base       == IF base_weights = NoArg THEN defaults ELSE base_weights
        written    == WrittenObject(base_weights)
        f1_fatigue == FatigueOrOne(f1, round_num)
        f2_fatigue == FatigueOrOne(f2, round_num)
        stmts      == Scaled(round_num)
    IN  IF ~f1_fatigue.ok \/ ~f2_fatigue.ok
        THEN Adjustment(FALSE, "ZeroDivisionError", base, base, defaults, "new",
                        f1_fatigue.val, f2_fatigue.val)
        ELSE IF MissingKey(base, stmts)
        THEN Adjustment(FALSE, "KeyError", base, base, defaults, "new",
                        f1_fatigue.val, f2_fatigue.val)
        ELSE Adjustment(TRUE, "", Scale(base, stmts, 1, f1_fatigue.val), base,
                        defaults, written, f1_fatigue.val, f2_fatigue.val)

\* round_win_probs(f1, f2, total_rounds): the loop from round r on, probs
\* the list so far and defaults the value of DEFAULT_WEIGHTS; an exception
\* of a round ends the call.
RECURSIVE RoundsFrom(_, _, _, _, _, _, _)
RECURSIVE AfterAdjusting(_, _, _, _, _, _, _)
AfterAdjusting(r, total_rounds, f1, f2, order, probs, adj) ==
    IF ~adj.ok
    THEN [ok |-> FALSE, err |-> adj.err, probs |-> probs, defaults |-> adj.defaults]
    ELSE RoundsFrom(r + 1, total_rounds, f1, f2, order, adj.defaults,
                    Append(probs, win_probability(f1, f2, adj.w, order).p))

RoundsFrom(r, total_rounds, f1, f2, order, defaults, probs) ==
    IF r > total_rounds
    THEN [ok |-> TRUE, err |-> "", probs |-> probs, defaults |-> defaults]
    ELSE AfterAdjusting(r, total_rounds, f1, f2, order, probs,
                        round_adjusted_weights(r, f1, f2, NoArg, defaults))

round_win_probs(f1, f2, total_rounds, order, defaults) ==
    RoundsFrom(1, total_rounds, f1, f2, order, defaults, <<>>)

(***************************************************************************)
(* Callers that build records                                              *)
(***************************************************************************)

\* FighterStats(**kw): the dataclass constructor takes exactly the ten
\* fields, stores them as given, and raises TypeError otherwise.
FighterStats(kw) ==
    IF DOMAIN kw = FieldSet
    THEN [ok |-> TRUE, err |-> "", rec |-> kw]
    ELSE [ok |-> FALSE, err |-> "TypeError", rec |-> [k \in FieldSet |-> FZero]]

\* The entry widgets of one fighter in the form, in the order they are made.
GuiFields == Fields \o <<"top10_fights">>

\* The text of an entry widget: a number, a text float() rejects, or nothing.
Empty == [kind |-> "empty", val |-> FZero]

\* The value get_fighter_stats stores for a numeric entry of field k.
GuiValue(k, x) == IF k \in PctFields /\ FLt(FOne, x) THEN FDiv(x, FInt(100)) ELSE x

\* get_fighter_stats(entries): an empty or non-numeric entry raises
\* ValueError; otherwise every entry, top10_fights included, is passed to
\* the constructor.
get_fighter_stats(entries) ==
    IF \E i \in 1..Len(GuiFields) : entries[GuiFields[i]].kind # "num"
    THEN [ok |-> FALSE, err |-> "ValueError", rec |-> [k \in FieldSet |-> FZero]]
    ELSE FighterStats([k \in DOMAIN entries |-> GuiValue(k, entries[k].val)])

(***************************************************************************)
(* Inputs                                                                  *)
(***************************************************************************)

\* A record from its ten values in hundredths, in constructor order.
Stats(h) == [k \in FieldSet |-> FDec(h[IndexOf(k)])]

\* The two records of the demo scripts.
chimaev == Stats(<<536, 325, 59, 42, 431, 47, 100, 277, 62, 605>>)

dricus == Stats(<<612, 490, 49, 54, 255, 50, 50, 73, 48, 1375>>)

\* from_dict({}): every field 0.
blank == [k \in FieldSet |-> FZero]

\* Two records with one very large (and valid: non-negative) strike rate.
slugger == [blank EXCEPT !.slpm = FInt(1000), !.aft_minutes = FInt(15)]

titan == [blank EXCEPT !.slpm = FInt(20000), !.aft_minutes = FInt(15)]

\* The first demo record with the smallest positive average fight time
\* (5e-324 minutes).
brief == [chimaev EXCEPT !.aft_minutes = Round(1, ExpMin)]

\* A valid StatRecord: every field non-negative, the four fractions at
\* most 1, the fight time at most 25.
Valid(f) ==
    /\ \A k \in FieldSet : f[k][1] >= 0
    /\ \A k \in PctFields : FLe(f[k], FOne)
    /\ FLe(f.aft_minutes, FInt(25))

Catalogue == {chimaev, dricus, blank, slugger, titan}

\* Weight maps a caller passes: none (the default applies), the empty map,
\* a calibrated map over a subset of the feature keys (weights_from_vector
\* with a short feature_keys list), and a map with a key no feature has.
Calibrated ==
    [k \in {"bias", "strike_eff_delta", "td_control_delta"} |->
        IF k = "bias" THEN FDec(10) ELSE FDec(25)]

WithExtraKey ==
    [k \in FeatureKeySet \cup {"reach_delta"} |->
        IF k = "reach_delta" THEN FDec(50) ELSE DefaultWeightsLiteral[k]]

WeightArgs == {NoArg, <<>>, Calibrated, WithExtraKey}

\* The maps those arguments resolve to.
ScoringMaps == {DefaultWeightsLiteral, <<>>, Calibrated, WithExtraKey}

\* Iteration orders.  CPython iterates a set of strings by their hashes,
\* which are randomised for every process (PYTHONHASHSEED), and the program
\* fixes no seed: a process may give set(w) | set(x) any order of its keys,
\* another one for every key set it builds, and it gives the same set the
\* same order every time it builds it.  A map of the model has no insertion
\* order: it stands for the dict whose entries were inserted as the literal
\* DEFAULT_WEIGHTS lists them (a .copy() keeps that order), so that a key
\* set names the set a call builds.
\*
\* Two orders that sum each of some vectors of products to the same value
\* differ in nothing that sums of those vectors show.  Orders(vecs, keys, n)
\* is one order of keys for every way the results of summing the vectors
\* vecs (a sequence of maps over keys) can come out together.  It is found by
\* summing over every subset of the keys: a level holds, for every subset
\* `used` of one size, the pair <<used, S>> with S the partial sums of the
\* vectors that the orders of `used` leave.
Terms(w, x) == [k \in DOMAIN w \cup DOMAIN x |-> FMul(Get(w, k), Get(x, k))]

\* The elements of a set, one after another.
RECURSIVE SeqOf(_)
First(S, v) == <<v>> \o SeqOf(S \ {v})

SeqOf(S) == IF S = {} THEN <<>> ELSE First(S, CHOOSE v \in S : TRUE)

SumsAfter(sums, vecs, k) == [j \in DOMAIN vecs |-> FAdd(sums[j], vecs[j][k])]

Reached(level, used) == (CHOOSE q \in level : q[1] = used)[2]

Extended(level, vecs, keys, n) ==
    {<<used, UNION {{SumsAfter(s, vecs, k) : s \in Reached(level, used \ {k})} :
                       k \in used}>> :
        used \in {u \in SUBSET keys : Cardinality(u) = n}}

RECURSIVE PartialSums(_, _, _)
PartialSums(levels, vecs, keys) ==
    IF Len(levels) > Cardinality(keys) THEN levels
    ELSE PartialSums(Append(levels, Extended(levels[Len(levels)], vecs, keys,
                                             Len(levels))),
                     vecs, keys)

\* The key summed last and the partial sums before it, on a way to `sums`
\* over the keys `used`.
LastStep(level, vecs, used, sums) ==
    CHOOSE p \in UNION {{<<k, s>> : s \in Reached(level, used \ {k})} : k \in used} :
        SumsAfter(p[2], vecs, p[1]) = sums

\* An order of the keys `used` that leaves `sums`.
RECURSIVE OrderTo(_, _, _, _)
OrderBefore(levels, vecs, used, step) ==
    Append(OrderTo(levels, vecs, used \ {step[1]}, step[2]), step[1])

OrderTo(levels, vecs, used, sums) ==
    IF used = {} THEN <<>>
    ELSE OrderBefore(levels, vecs, used,
                     LastStep(levels[Cardinality(used)], vecs, used, sums))

\* What the calls show of the sums `sums` of the vectors: of the first n,
\* which win_probability sums for the records it is handed, the score; of
\* the others, summed inside bootstrap_probability and round_win_probs, the
\* probability only.
Shown(sums, n) ==
    [j \in DOMAIN sums |-> IF j <= n THEN sums[j] ELSE sigmoid(sums[j])]

\* One order for every way the sums `final` show.
OrdersOf(levels, vecs, keys, final, n) ==
    {OrderTo(levels, vecs, keys, CHOOSE sums \in final : Shown(sums, n) = r) :
        r \in {Shown(sums, n) : sums \in final}}

OrdersFrom(levels, vecs, keys, n) ==
    OrdersOf(levels, vecs, keys, Reached(levels[Cardinality(keys) + 1], keys), n)

Orders(vecs, keys, n) ==
    OrdersFrom(PartialSums(<<{<<{}, {[j \in DOMAIN vecs |-> FZero]}>>}>>, vecs, keys),
               vecs, keys, n)

\* What a process hands to dot: pairs <<w, x>> of a weight map and a feature
\* map.  Scoring the records a and b with each of the weight maps `maps`:
DirectSums(maps, a, b) == {<<w, matchup_features(a, b)>> : w \in maps}

\* the iterations of bootstrap_probability(a, b, w, iters, noise, seed):
BootstrapSums(w, a, b, iters, noise, seed) ==
    {<<w, matchup_features(Copies(a, b, iters, noise, Random(seed))[it].aa,
                           Copies(a, b, iters, noise, Random(seed))[it].bb)>> :
        it \in 1..iters}

\* the rounds of round_win_probs(a, b, total_rounds) that are scored.
RoundSums(a, b, total_rounds) ==
    {<<round_adjusted_weights(r, a, b, NoArg, DefaultWeightsLiteral).w,
       matchup_features(a, b)>> :
        r \in {q \in 1..total_rounds :
                  round_adjusted_weights(q, a, b, NoArg, DefaultWeightsLiteral).ok}}

\* The vectors of products among `sums` that are summed over key set ks.
VectorsOver(sums, ks) ==
    SeqOf({Terms(s[1], s[2]) : s \in {t \in sums : DOMAIN t[1] = ks}})

\* The pairs <<key set, order>> for the sums `direct`, told apart by the
\* score, and `inner`, told apart by the probability a call makes of them.
OrderPairs(direct, inner) ==
    UNION {{<<ks, o>> :
               o \in Orders(VectorsOver(direct, ks) \o VectorsOver(inner, ks),
                            ks \cup FeatureKeySet, Len(VectorsOver(direct, ks)))} :
           ks \in {DOMAIN s[1] : s \in direct \cup inner}}

\* The functions that pick one of the pairs for every key set.
Picks(pairs) ==
    {f \in [{p[1] : p \in pairs} -> {p[2] : p \in pairs}] :
        \A ks \in DOMAIN f : <<ks, f[ks]>> \in pairs}

\* The processes whose calls hand those sums to dot: each is its order for
\* every key set, one process for every way the results of the calls can
\* come out together.
KeyOrders(direct, inner) == Picks(OrderPairs(direct, inner))

\* Values of one key of a mapping handed to from_dict.
RawValues ==
    {Num(FZero), Num(FDec(59)), Num(FOne), Num(FDec(150)), Num(FInt(59)),
     Num(FInt(100)), Num(FInt(150)), Num(FNeg(FInt(5))), None, Text}

\* asdict(f): the mapping with every field of f as a number.
AsDict(f) == [k \in FieldSet |-> Num(f[k])]

\* What the scraper returns when it finds no statistic on the page.
AllNone == [k \in FieldSet |-> None]

\* Sets of keys a mapping may lack.
OmitSets == {{}, {"sapm", "td_acc"}, FieldSet \ {"strike_acc"}}

\* d with key k set to v, then without the keys in omit.
Mapping(d, k, v, omit) == [j \in FieldSet \ omit |-> IF j = k THEN v ELSE d[j]]

\* Records built by calling the constructor directly, as the demo scripts
\* do: the constructor stores what it is given.
DirectRecords ==
    {chimaev, dricus, blank,
     [chimaev EXCEPT !.strike_acc = FInt(59)],
     [dricus EXCEPT !.td_def = FNeg(FDec(50))]}

\* The form's entries for record f, fractions shown as percentages.
Entries(f) ==
    [k \in FieldSet \cup {"top10_fights"} |->
        IF k = "top10_fights" THEN Num(FInt(3))
        ELSE IF k \in PctFields THEN Num(FMul(f[k], FInt(100)))
        ELSE Num(f[k])]

MaxIters == 3

MaxRound == 4

MaxEpochs == 3

\* The list lengths for which the two ranks are compared.
MaxSamples == 120

\* Design matrices: the demo pair both ways round and a pair with the
\* all-zero record, over two or three feature columns.
DesignMatrices ==
    {build_design_matrix(<<<<chimaev, dricus>>, <<dricus, chimaev>>>>,
                         <<"strike_eff_delta", "td_control_delta">>),
     build_design_matrix(<<<<chimaev, blank>>, <<blank, dricus>>>>,
                         <<"bias", "sub_delta", "kd_delta">>)}

\* Label vectors for two rows.
Labels == {<<FOne, FZero>>, <<FZero, FOne>>, <<FOne, FOne>>}

(***************************************************************************)
(* State                                                                   *)
(***************************************************************************)

VARIABLES
    DEFAULT_WEIGHTS,  \* the module-level dict of mma_prob_model
    order,            \* this process's iteration order of every key set it
                      \* builds
    rng,              \* the state of the generator the last bootstrap made
    f1, f2,           \* the two records the caller analyses
    last              \* the last call: its arguments and what it returned
                      \* (for a bootstrap, also whether it repeats the call
                      \* made just before it)

vars == <<DEFAULT_WEIGHTS, order, rng, f1, f2, last>>

\* The weights argument as win_probability and bootstrap_probability
\* resolve it (`if weights is None: weights = DEFAULT_WEIGHTS`).
Resolve(weights) == IF weights = NoArg THEN DEFAULT_WEIGHTS ELSE weights

\* The process after the modules are loaded, with the pair of records it
\* is to analyse drawn from `pairs`.  No generator exists until a call
\* makes one: `rng` starts as one that has drawn nothing.
Loaded(pairs) ==
    /\ DEFAULT_WEIGHTS = DefaultWeightsLiteral
    /\ rng = Random(0)
    /\ \E pair \in pairs : f1 = pair[1] /\ f2 = pair[2]
    /\ last = [op |-> "none"]

(***************************************************************************)
(* Calls                                                                   *)
(***************************************************************************)

FromDict(d) ==
    /\ last' = [op |-> "from_dict", d |-> d] @@ from_dict(d)
    /\ UNCHANGED <<DEFAULT_WEIGHTS, order, rng, f1, f2>>

Construct(kw) ==
    /\ last' = [op |-> "FighterStats", kw |-> kw] @@ FighterStats(kw)
    /\ UNCHANGED <<DEFAULT_WEIGHTS, order, rng, f1, f2>>

GetFighterStats(entries) ==
    /\ last' = [op |-> "get_fighter_stats", entries |-> entries]
                  @@ get_fighter_stats(entries)
    /\ UNCHANGED <<DEFAULT_WEIGHTS, order, rng, f1, f2>>

WinProbability(weights) ==
    /\ last' = [op |-> "win_probability", a |-> f1, b |-> f2, weights |-> weights]
                  @@ win_probability(f1, f2, Resolve(weights), order)
    /\ UNCHANGED <<DEFAULT_WEIGHTS, order, rng, f1, f2>>

Explain(weights) ==
    /\ last' = [op |-> "explain", a |-> f1, b |-> f2, weights |-> weights]
                  @@ explain(f1, f2, Resolve(weights), order)
    /\ UNCHANGED <<DEFAULT_WEIGHTS, order, rng, f1, f2>>

MatchupFeatures ==
    /\ last' = [op |-> "matchup_features", a |-> f1, b |-> f2,
                feats |-> matchup_features(f1, f2)]
    /\ UNCHANGED <<DEFAULT_WEIGHTS, order, rng, f1, f2>>

RoundWinProbs(total_rounds) ==
    /\ last' = [op |-> "round_win_probs", a |-> f1, b |-> f2,
                total_rounds |-> total_rounds]
                  @@ round_win_probs(f1, f2, total_rounds, order, DEFAULT_WEIGHTS)
    /\ DEFAULT_WEIGHTS' = last'.defaults
    /\ UNCHANGED <<order, rng, f1, f2>>

\* Whether the last call was bootstrap_probability with these arguments.
SameCall(weights, iters, noise, seed) ==
    /\ last.op = "bootstrap_probability"
    /\ <<last.weights, last.iters, last.noise, last.seed>> = <<weights, iters, noise, seed>>

BootstrapProbability(weights, iters, noise, seed) ==
    /\ last' = [op |-> "bootstrap_probability", a |-> f1, b |-> f2,
                weights |-> weights, iters |-> iters, noise |-> noise, seed |-> seed,
                again |-> SameCall(weights, iters, noise, seed)]
                  @@ bootstrap_probability(f1, f2, Resolve(weights), iters, noise,
                                           seed, order, rng)
    /\ rng' = last'.rng
    /\ f1' = last'.a_after
    /\ f2' = last'.b_after
    /\ UNCHANGED <<DEFAULT_WEIGHTS, order>>

\* fit_logistic_regression, one step at a time.  While a call runs, `last`
\* holds its arguments, its vector w, the number of passes of the loop made
\* so far and its position: "loop" until range(epochs) is used up, then
\* "returned".  A call runs to its end before the next call starts.
Fitting == last.op = "fit_logistic_regression" /\ last.pc = "loop"

\* The vector the previous fit returned, of D entries (all 0 if there was
\* none).
LeftBehind(D) ==
    IF last.op = "fit_logistic_regression" /\ Len(last.w) = D THEN last.w
    ELSE [d \in 1..D |-> FZero]

FitCall(X, y, l2, lr, epochs) ==
    /\ ~Fitting
    /\ last' = [op |-> "fit_logistic_regression", pc |-> "loop",
                X |-> X, y |-> y, l2 |-> l2, lr |-> lr, epochs |-> epochs,
                passes |-> 0, w |-> InitialWeights(Len(X[1]), LeftBehind(Len(X[1])))]
    /\ UNCHANGED <<DEFAULT_WEIGHTS, order, rng, f1, f2>>

FitEpoch ==
    /\ Fitting
    /\ last.passes < last.epochs
    /\ last' = [last EXCEPT !.passes = @ + 1,
                            !.w = Epoch(last.w, last.X, last.y, last.l2, last.lr)]
    /\ UNCHANGED <<DEFAULT_WEIGHTS, order, rng, f1, f2>>

FitReturn ==
    /\ Fitting
    /\ last.passes >= last.epochs
    /\ last' = [last EXCEPT !.pc = "returned"]
    /\ UNCHANGED <<DEFAULT_WEIGHTS, order, rng, f1, f2>>

RoundAdjustedWeights(round_num, a, b, base) ==
    /\ last' = [op |-> "round_adjusted_weights", round_num |-> round_num,
                f1 |-> a, f2 |-> b, base |-> base]
                  @@ round_adjusted_weights(round_num, a, b, base, DEFAULT_WEIGHTS)
    /\ DEFAULT_WEIGHTS' = last'.defaults
    /\ UNCHANGED <<order, rng, f1, f2>>

(***************************************************************************)
(* Specifications                                                          *)
(***************************************************************************)

\* Building records: from_dict, the constructor, the form.
InitBuild == Loaded({<<blank, blank>>}) /\ order \in KeyOrders({}, {})

NextBuild ==
    \/ \E d \in {AsDict(chimaev), AsDict(blank), AllNone},
          k \in {"slpm", "strike_acc", "td_def", "aft_minutes"},
          v \in RawValues, omit \in OmitSets :
          FromDict(Mapping(d, k, v, omit))
    \/ \E kw \in DirectRecords \cup {Entries(chimaev)} : Construct(kw)
    \/ \E f \in {chimaev, dricus}, k \in {"slpm", "strike_acc", "top10_fights"},
          v \in {Num(FInt(59)), Num(FInt(150)), Empty, Text} :
          GetFighterStats([Entries(f) EXCEPT ![k] = v])

SpecBuild == InitBuild /\ [][NextBuild]_vars

\* Scoring: win_probability on every pair of the catalogue.
InitScore ==
    /\ Loaded(Catalogue \X Catalogue)
    /\ order \in KeyOrders(DirectSums(ScoringMaps, f1, f2), {})

NextScore == \E weights \in WeightArgs : WinProbability(weights)

SpecScore == InitScore /\ [][NextScore]_vars

\* Bootstrap, with and without noise.
InitBoot ==
    /\ Loaded({<<chimaev, dricus>>, <<dricus, chimaev>>, <<slugger, dricus>>})
    /\ order \in KeyOrders({}, UNION {BootstrapSums(DefaultWeightsLiteral, f1, f2, MaxIters, noise, 42) :
                                         noise \in {FZero, FDec(3)}})

NextBoot ==
    \E weights \in {NoArg}, iters \in 0..MaxIters,
       noise \in {FZero, FDec(3)}, seed \in {42} :
        BootstrapProbability(weights, iters, noise, seed)

SpecBoot == InitBoot /\ [][NextBoot]_vars

\* Bootstrap calls whose noise (1.0) is large enough for a draw to push a
\* field below 0 or above its ceiling.
InitJitter ==
    /\ Loaded({<<chimaev, dricus>>, <<dricus, chimaev>>})
    /\ order \in KeyOrders({}, BootstrapSums(DefaultWeightsLiteral, f1, f2, MaxIters, FInt(1), 58))

NextJitter ==
    \E iters \in 1..MaxIters, noise \in {FInt(1)}, seed \in {58} :
        BootstrapProbability(NoArg, iters, noise, seed)

SpecJitter == InitJitter /\ [][NextJitter]_vars

\* Calibration: fits one after another in one process.
InitFit == Loaded({<<chimaev, dricus>>}) /\ order \in KeyOrders({}, {})

NextFit ==
    \/ \E X \in DesignMatrices, y \in Labels, l2 \in {FOne, FZero},
          lr \in {FDec(5), FOne}, epochs \in 0..MaxEpochs :
           FitCall(X, y, l2, lr, epochs)
    \/ FitEpoch
    \/ FitReturn

SpecFit == InitFit /\ [][NextFit]_vars

\* Round adjustment.
RoundFighters == {chimaev, dricus, blank, brief}

InitRound ==
    /\ Loaded(RoundFighters \X RoundFighters)
    /\ order \in KeyOrders(DirectSums({Calibrated, WithExtraKey}, f1, f2), {})

NextRound ==
    \E round_num \in 1..MaxRound, a \in {f1, NoArg}, b \in {f2, NoArg},
       base \in {NoArg, Calibrated, WithExtraKey} :
        RoundAdjustedWeights(round_num, a, b, base)

SpecRound == InitRound /\ [][NextRound]_vars

\* Features and scores of every pair of the catalogue, in both directions.
\* The catalogue and a record whose only non-zero field is a knockdown
\* rate of 1.93.
puncher == [blank EXCEPT !.kd_avg = FDec(193)]

FeatureFighters == Catalogue \cup {puncher}

InitFeatures ==
    /\ Loaded(FeatureFighters \X FeatureFighters)
    /\ order \in KeyOrders(DirectSums(ScoringMaps, f1, f2) \cup DirectSums(ScoringMaps, f2, f1), {})

NextFeatures ==
    \/ MatchupFeatures
    \/ \E weights \in WeightArgs : WinProbability(weights)

SpecFeatures == InitFeatures /\ [][NextFeatures]_vars

\* Bootstrap calls without noise.
InitStill ==
    /\ Loaded({<<chimaev, dricus>>, <<dricus, chimaev>>, <<blank, puncher>>})
    /\ order \in KeyOrders({}, UNION {BootstrapSums(DefaultWeightsLiteral, f1, f2, MaxIters, FZero, seed) :
                                         seed \in {42, 7, 3, 12}})

NextStill ==
    \E iters \in 1..MaxIters, seed \in {42, 7, 3, 12} :
        BootstrapProbability(NoArg, iters, FZero, seed)

SpecStill == InitStill /\ [][NextStill]_vars

\* Every operation that is handed weights or records, on one pair.  The
\* process scores the pair itself, a jittered copy of it and its rounds.
InitAnalysis ==
    /\ Loaded({<<chimaev, dricus>>, <<dricus, blank>>, <<blank, chimaev>>})
    /\ order \in KeyOrders(DirectSums({DefaultWeightsLiteral, Calibrated}, f1, f2),
                           BootstrapSums(DefaultWeightsLiteral, f1, f2, 1, FDec(3), 42)
                               \cup RoundSums(f1, f2, MaxRound))

NextAnalysis ==
    \/ \E weights \in {NoArg, Calibrated} : WinProbability(weights)
    \/ \E weights \in {NoArg, Calibrated} : Explain(weights)
    \/ MatchupFeatures
    \/ \E seed \in {42} : BootstrapProbability(NoArg, 1, FDec(3), seed)
    \/ \E round_num \in 1..MaxRound, base \in {NoArg, WithExtraKey} :
           RoundAdjustedWeights(round_num, f1, f2, base)
    \/ \E total_rounds \in 0..MaxRound : RoundWinProbs(total_rounds)

SpecAnalysis == InitAnalysis /\ [][NextAnalysis]_vars

(***************************************************************************)
(* Properties                                                              *)
(***************************************************************************)

\* The default weights were used by the last call.
ByDefault == last.weights = NoArg

Scored == last.op = "win_probability"

\* C1: for every pair of valid records and the default weights,
\* win_probability returns p with 0 < p < 1 strictly, never exactly 0 and
\* never exactly 1, however large the score z.
C1_ProbabilityStrictlyInside ==
    (Scored /\ ByDefault /\ Valid(last.a) /\ Valid(last.b))
        => (FLt(FZero, last.p) /\ FLt(last.p, FOne))

\* A call on valid records whose score is so large that 1 + exp(-z) rounds
\* to 1 and p is exactly 1.
C1_SaturatedAtOne ==
    /\ Scored /\ ByDefault
    /\ last.a = slugger /\ last.b = blank
    /\ last.p = FOne

\* C2: for every valid record a, win_probability(a, a) with the default
\* weights returns p exactly 0.5.
C2_SelfMatchupIsEven ==
    (Scored /\ ByDefault /\ last.a = last.b /\ Valid(last.a))
        => last.p = FDec(50)

\* The demo record against itself: the score is 0 and p is 0.5.
C2_SelfMatchupScored ==
    /\ Scored /\ ByDefault
    /\ last.a = chimaev /\ last.b = chimaev
    /\ last.z = FZero /\ last.p = FDec(50)

\* C3: for every call of win_probability, also with a weight map whose keys
\* differ from the feature keys, the sigmoid of the sum of the returned
\* contributions equals the returned p exactly.
C3_ContributionsReconstruct ==
    Scored => sigmoid(SumContrib(last.contrib)) = last.p

\* A call with the default weights where the contributions, summed in the
\* order the dict gives them, round to another score than dot computed.
C3_SumDiffersFromScore ==
    /\ Scored /\ ByDefault
    /\ SumContrib(last.contrib) # last.z
    /\ sigmoid(SumContrib(last.contrib)) # last.p

\* The last call was bootstrap_probability and it returned.
Bootstrapped == last.op = "bootstrap_probability" /\ last.ok

\* C4: for valid inputs with iters >= 1, bootstrap_probability returns
\* (meanP, (lowP, highP)) with lowP <= meanP <= highP and both bounds
\* strictly between 0 and 1.
C4_IntervalBracketsMean ==
    (Bootstrapped /\ last.iters >= 1 /\ Valid(last.a) /\ Valid(last.b))
        => /\ FLe(last.lo, last.mean_p) /\ FLe(last.mean_p, last.hi)
           /\ FLt(FZero, last.lo) /\ FLt(last.hi, FOne)

\* Two iterations: both bounds are the smaller sample, and the mean of two
\* different samples lies above the upper bound.
C4_MeanAboveUpperBound ==
    /\ Bootstrapped /\ last.iters = 2
    /\ last.a = chimaev /\ last.b = dricus
    /\ last.lo = last.hi
    /\ FLt(last.hi, last.mean_p)

\* What the last call returned: (mean_p, (lo, hi)), or the exception.
Outcome(r) == <<r.ok, r.err, r.mean_p, r.lo, r.hi>>

\* C5: bootstrap_probability is deterministic in its arguments: whatever
\* calls were made before it, a call returns what the same call returns as
\* the first call of the process, so two calls with the same (a, b,
\* weights, iters, noise, seed) return identical (meanP, lowP, highP); the
\* generator is made from the seed in each call.
C5_SameArgumentsSameResult ==
    last.op = "bootstrap_probability"
        => Outcome(last) =
             Outcome(bootstrap_probability(last.a, last.b, Resolve(last.weights),
                                           last.iters, last.noise, last.seed,
                                           order, Random(0)))

\* A call repeated right after itself, with noise, whose samples differ:
\* the generator the first call left behind is not where the seed starts.
C5_RepeatedNoisyCall ==
    /\ Bootstrapped /\ last.again
    /\ last.iters = MaxIters /\ last.noise = FDec(3) /\ last.seed = 42
    /\ rng # Random(last.seed)
    /\ FLt(last.lo, last.hi)

\* The last call was round_adjusted_weights and it returned a map.
Adjusted == last.op = "round_adjusted_weights" /\ last.ok

\* The map the last round adjustment started from.
BaseOfLast == IF last.base = NoArg THEN DEFAULT_WEIGHTS ELSE last.base

\* The keys the statements of neither branch assign.
NeverScaled == {"bias", "strike_eff_delta", "kd_delta"}

EarlyKeys == {"td_control_delta", "td_vs_tdd_interaction", "sub_delta"}

LateKeys == {"durability_delta", "strike_output_delta", "strike_safety_delta"}

\* The returned map has base's entry at every key of ks.
SameAt(ks) == \A k \in ks : k \in DOMAIN last.w /\ last.w[k] = BaseOfLast[k]

\* C6: round_adjusted_weights(r, f1, f2, base) returns, for r in {1, 2}, a
\* map whose durability_delta, strike_output_delta and strike_safety_delta
\* equal base's; for r >= 3, a map whose td_control_delta,
\* td_vs_tdd_interaction and sub_delta equal base's; and in both cases
\* bias, strike_eff_delta and kd_delta equal base's.
C6_RoundLeavesOtherKeys ==
    Adjusted =>
        /\ SameAt(NeverScaled)
        /\ last.round_num <= 2 => SameAt(LateKeys)
        /\ last.round_num >= 3 => SameAt(EarlyKeys)

\* Round 3 for the demo pair: the late keys are scaled, the early ones kept.
C6_ThirdRoundAdjusted ==
    /\ Adjusted /\ last.round_num = 3
    /\ last.f1 = chimaev /\ last.f2 = dricus /\ last.base = NoArg
    /\ \A k \in LateKeys : last.w[k] # DEFAULT_WEIGHTS[k]
    /\ SameAt(EarlyKeys)

\* The last call was from_dict.
Built == last.op = "from_dict"

\* The number v is a percentage above 1: 1 < v <= 100.
IsPercentage(v) == v.kind = "num" /\ FLt(FOne, v.val) /\ FLe(v.val, FInt(100))

\* C7: for each percentage-like field and every value v in (1, 100], a
\* record built from a mapping with that field = v is the record built
\* from the mapping with that field = v / 100.
C7_PercentageEqualsFraction ==
    Built =>
        \A k \in PctFields \cap DOMAIN last.d :
            IsPercentage(last.d[k]) =>
                /\ from_dict([last.d EXCEPT ![k] = Num(FDiv(@.val, FInt(100)))]).ok = last.ok
                /\ from_dict([last.d EXCEPT ![k] = Num(FDiv(@.val, FInt(100)))]).rec = last.rec

\* strike_acc = 59 is stored as 0.59.
C7_FiftyNineNormalised ==
    /\ Built /\ last.ok
    /\ "strike_acc" \in DOMAIN last.d
    /\ last.d.strike_acc = Num(FInt(59))
    /\ last.rec.strike_acc = FDec(59)

\* The last call built a record, by whichever path.
Constructed ==
    /\ last.op \in {"from_dict", "FighterStats", "get_fighter_stats"}
    /\ last.ok

\* C8: every record that construction produces (from_dict, the form, the
\* constructor called directly) has strike_acc, strike_def, td_acc and
\* td_def in [0, 1], whatever numbers it was given.
C8_FractionsInUnitInterval ==
    Constructed =>
        \A k \in PctFields : FLe(FZero, last.rec[k]) /\ FLe(last.rec[k], FOne)

\* from_dict with strike_acc = 150 stores 1.5.
C8_StoredAboveOne ==
    /\ Built /\ last.ok
    /\ "strike_acc" \in DOMAIN last.d
    /\ last.d.strike_acc = Num(FInt(150))
    /\ FLt(FOne, last.rec.strike_acc)

\* Some field of the mapping is present and not a number.
SomeNonNumeric(d) == \E k \in DOMAIN d : d[k].kind # "num"

\* C9: building a record from a mapping in which a field is present but not
\* numeric (a text, or None) fails with an error and produces no record: no
\* field that is not a number is silently replaced by one.
C9_NonNumericFails == (Built /\ SomeNonNumeric(last.d)) => ~last.ok

\* from_dict on a mapping whose strike_acc is None returns a record, with
\* 0.0 stored for it.
C9_NoneStoredAsZero ==
    /\ Built /\ last.ok
    /\ "strike_acc" \in DOMAIN last.d /\ last.d.strike_acc = None
    /\ last.rec.strike_acc = FZero

\* The value field k of the record gets from the number v it was given.
Normalised(k, v) ==
    IF k \in PctFields /\ FLt(FOne, v) THEN FDiv(v, FInt(100)) ELSE v

\* C10: from_dict on a mapping that omits some of the ten fields succeeds
\* and stores 0.0 in each omitted field, leaving the supplied fields as
\* given (after percentage normalisation).
C10_OmittedFieldsAreZero ==
    (Built /\ \A k \in DOMAIN last.d : last.d[k].kind = "num") =>
        /\ last.ok
        /\ \A k \in FieldSet \ DOMAIN last.d : last.rec[k] = FZero
        /\ \A k \in DOMAIN last.d : last.rec[k] = Normalised(k, last.d[k].val)

\* A mapping with strike_acc = 59 alone: the other nine fields are 0.
C10_OnlyStrikeAccSupplied ==
    /\ Built /\ last.ok
    /\ DOMAIN last.d = {"strike_acc"}
    /\ last.d.strike_acc = Num(FInt(59))
    /\ last.rec.strike_acc = FDec(59)
    /\ \A k \in FieldSet \ {"strike_acc"} : last.rec[k] = FZero

\* C11: DEFAULT_WEIGHTS is never mutated: after any sequence of calls of
\* win_probability, explain, bootstrap_probability, round_adjusted_weights
\* and round_win_probs, with or without an explicit weights or base
\* argument, every entry of DEFAULT_WEIGHTS has its initial value.
C11_DefaultWeightsUnchanged == DEFAULT_WEIGHTS = DefaultWeightsLiteral

\* round_win_probs has adjusted the default weights for every round and
\* returned, and the defaults are as they were.
C11_RoundsAdjustedFromDefaults ==
    /\ last.op = "round_win_probs" /\ last.ok
    /\ last.total_rounds = MaxRound /\ Len(last.probs) = MaxRound
    /\ last.probs[1] # last.probs[MaxRound]
    /\ DEFAULT_WEIGHTS = DefaultWeightsLiteral

\* C12: round_adjusted_weights never adjusts in place: a call with a map
\* passed as base leaves every entry of base as it was and returns a new
\* dict, so repeating the call with the same base does not compound the
\* multipliers.
C12_BaseUnchangedAndCopied ==
    (last.op = "round_adjusted_weights" /\ last.base # NoArg) =>
        /\ last.base_after = last.base
        /\ last.ok => last.fresh

\* Round 1 on a passed map: the returned map is scaled, base is not.
C12_ScaledCopyOfPassedBase ==
    /\ Adjusted /\ last.round_num = 1
    /\ last.base = WithExtraKey
    /\ last.w.td_control_delta # last.base.td_control_delta
    /\ last.base_after = WithExtraKey

\* The record arguments of the last call.
RecordsOfLast ==
    IF last.op = "round_adjusted_weights" THEN {last.f1, last.f2} \ {NoArg}
    ELSE {last.a, last.b}

\* C13: no operation on valid records raises an arithmetic error: for
\* every pair of valid records, fields equal to 0 included (sapm = 0,
\* aft_minutes = 0), matchup_features, win_probability,
\* round_adjusted_weights and round_win_probs return a value and never fail
\* with a division by zero.
C13_NoDivisionByZero ==
    (/\ last.op \in {"matchup_features", "win_probability",
                     "round_adjusted_weights", "round_win_probs"}
     /\ \A f \in RecordsOfLast : Valid(f))
        => (last.op \in {"round_adjusted_weights", "round_win_probs"}
               => last.err # "ZeroDivisionError")

\* round_adjusted_weights for a fighter whose aft_minutes is 0: the
\* division by aft_minutes / 15 raises.
C13_ZeroFightTimeRaises ==
    /\ last.op = "round_adjusted_weights"
    /\ last.f1 = blank /\ last.round_num = 1
    /\ ~last.ok /\ last.err = "ZeroDivisionError"

\* The probability of round r computed on its own from the default weights.
RoundAlone(r) ==
    win_probability(last.a, last.b,
                    round_adjusted_weights(r, last.a, last.b, DEFAULT_WEIGHTS,
                                           DEFAULT_WEIGHTS).w,
                    order).p

\* C14: round_win_probs(f1, f2, totalRounds) returns a sequence of exactly
\* totalRounds probabilities whose r-th element is win_probability(f1, f2,
\* round_adjusted_weights(r, f1, f2, DEFAULT_WEIGHTS)), each round computed
\* from the unmodified base weights, independent of earlier rounds.
C14_OneProbabilityPerRound ==
    (last.op = "round_win_probs" /\ Valid(last.a) /\ Valid(last.b)) =>
        /\ last.ok
        /\ Len(last.probs) = last.total_rounds
        /\ \A r \in 1..last.total_rounds : last.probs[r] = RoundAlone(r)

\* round_win_probs for a first fighter whose aft_minutes is 0: round 1
\* raises and no sequence is returned.
C14_NoSequenceForZeroFightTime ==
    /\ last.op = "round_win_probs"
    /\ last.a = blank /\ last.b = chimaev /\ last.total_rounds = MaxRound
    /\ ~last.ok /\ last.err = "ZeroDivisionError" /\ last.probs = <<>>

\* The records the caller holds are the ones it passed to the last call.
InputsAsPassed ==
    IF last.op = "round_adjusted_weights"
    THEN /\ last.f1 # NoArg => f1 = last.f1
         /\ last.f2 # NoArg => f2 = last.f2
    ELSE f1 = last.a /\ f2 = last.b

\* C15: the records passed to an operation are not modified: after any
\* call of win_probability, bootstrap_probability, round_adjusted_weights
\* or round_win_probs all ten fields of each input record have the values
\* they had before the call; the bootstrap jitters new copies only.
C15_InputRecordsUnchanged ==
    last.op \in {"win_probability", "bootstrap_probability",
                 "round_adjusted_weights", "round_win_probs"}
        => InputsAsPassed

\* A bootstrap with noise whose copies differ from the records passed: the
\* records were jittered, and the caller's records are the demo records
\* still.
C15_JitteredCopiesOnly ==
    /\ Bootstrapped /\ last.iters = 1 /\ last.noise = FDec(3)
    /\ last.copies[1].aa # last.a /\ last.copies[1].bb # last.b
    /\ last.a = chimaev /\ f1 = chimaev
    /\ last.b = dricus /\ f2 = dricus

\* The returned map has at key k base's entry times (c * f1_fatigue), c in
\* hundredths: `w[k] *= c * f1_fatigue`.
ScaledAt(k, c) == last.w[k] = FMul(BaseOfLast[k], FMul(FDec(c), last.f1_fatigue))

\* C16: for every integer roundNum >= 1 the adjusted weights are base
\* scaled by the round's multipliers: if roundNum <= 2, td_control_delta,
\* td_vs_tdd_interaction and sub_delta are each base * 1.3 * f1_fatigue; if
\* roundNum >= 3, durability_delta, strike_output_delta and
\* strike_safety_delta are base * 1.5 * f1_fatigue, base * 1.3 * f1_fatigue
\* and base * 1.2 * f1_fatigue; exactly one of the two sets is scaled.
C16_RoundMultipliers ==
    Adjusted =>
        /\ last.round_num <= 2 =>
              /\ \A k \in EarlyKeys : ScaledAt(k, 130)
              /\ SameAt(LateKeys)
        /\ last.round_num >= 3 =>
              /\ ScaledAt("durability_delta", 150)
              /\ ScaledAt("strike_output_delta", 130)
              /\ ScaledAt("strike_safety_delta", 120)
              /\ SameAt(EarlyKeys)

\* Round 3 for a first fighter whose fatigue factor is strictly between
\* the floor and 1: durability_delta is the default times 1.5 times it.
C16_ThirdRoundScaledByFatigue ==
    /\ Adjusted /\ last.round_num = 3
    /\ last.f1 = dricus /\ last.base = NoArg
    /\ FLt(FDec(50), last.f1_fatigue) /\ FLt(last.f1_fatigue, FOne)
    /\ ScaledAt("durability_delta", 150)
    /\ last.w.durability_delta # DEFAULT_WEIGHTS.durability_delta

\* C17: the fatigue factor is max(0.5, 1 - (roundNum - 1) * 0.15 /
\* (aft_minutes / 15)); for every integer roundNum >= 1 and every fighter
\* with aft_minutes > 0 it lies in [0.5, 1], equals 1 at roundNum = 1, and
\* is non-increasing as roundNum grows.
C17_FatigueFactorInRange ==
    (/\ last.op = "round_adjusted_weights"
     /\ last.f1 # NoArg
     /\ FLt(FZero, last.f1.aft_minutes))
        => LET factor == fatigue_factor(last.f1, last.round_num)
           IN  /\ factor.ok
               /\ last.f1_fatigue = factor.val
               /\ FLe(FDec(50), factor.val) /\ FLe(factor.val, FOne)
               /\ last.round_num = 1 => factor.val = FOne
               /\ last.round_num > 1 =>
                     FLe(factor.val, fatigue_factor(last.f1, last.round_num - 1).val)

\* Round 1 for a first fighter whose aft_minutes is the smallest positive
\* float: aft_minutes / 15 rounds to 0 and the division by it raises.
C17_TinyFightTimeRaises ==
    /\ last.op = "round_adjusted_weights"
    /\ last.f1 = brief /\ last.f2 = dricus /\ last.round_num = 1
    /\ FLt(FZero, last.f1.aft_minutes)
    /\ ~last.ok /\ last.err = "ZeroDivisionError"

\* What the last round adjustment would have been with other as f2.
WithSecond(other) ==
    round_adjusted_weights(last.round_num, last.f1, other, last.base, DEFAULT_WEIGHTS)

\* C18: only f1's fatigue factor affects the adjusted weights: for fixed
\* roundNum, f1 and base, round_adjusted_weights returns the same mapping
\* (and the same success/failure outcome) for every valid choice of f2.
C18_SecondFighterIrrelevant ==
    (last.op = "round_adjusted_weights" /\ last.f2 # NoArg)
        => \A other \in RoundFighters :
              Valid(other) =>
                  /\ WithSecond(other).ok = last.ok
                  /\ WithSecond(other).err = last.err
                  /\ last.ok => WithSecond(other).w = last.w

\* The same round, first fighter and base succeed with one second fighter
\* and raise with another, whose aft_minutes is 0.
C18_OutcomeDependsOnSecond ==
    /\ last.op = "round_adjusted_weights"
    /\ last.f1 = chimaev /\ last.f2 = blank /\ Valid(blank)
    /\ ~last.ok /\ last.err = "ZeroDivisionError"
    /\ WithSecond(dricus).ok

Featured == last.op = "matchup_features"

\* C19: for every pair (a, b), matchup_features(a, b) has
\* td_vs_tdd_interaction equal to td_control_delta, both equal to
\* a.td_avg15*a.td_acc*(1 - b.td_def) - b.td_avg15*b.td_acc*(1 - a.td_def).
C19_InteractionDuplicatesControl ==
    Featured =>
        /\ last.feats.td_vs_tdd_interaction = last.feats.td_control_delta
        /\ last.feats.td_control_delta =
               FSub(FMul(FMul(last.a.td_avg15, last.a.td_acc),
                         FSub(FOne, last.b.td_def)),
                    FMul(FMul(last.b.td_avg15, last.b.td_acc),
                         FSub(FOne, last.a.td_def)))

\* The features of the demo pair: both takedown terms are the same
\* positive number.
C19_DemoPairTakedownTerms ==
    /\ Featured /\ last.a = chimaev /\ last.b = dricus
    /\ FLt(FZero, last.feats.td_control_delta)
    /\ last.feats.td_vs_tdd_interaction = last.feats.td_control_delta

\* The weight map of the last scoring has bias weight 0.
ZeroBias == Get(Resolve(last.weights), "bias") = FZero

\* The last scoring with the fighters swapped.
Swapped == win_probability(last.b, last.a, Resolve(last.weights), order)

\* Each non-bias feature of the last matchup_features is the negation of
\* the same feature with the fighters swapped.
FeaturesNegated ==
    \A k \in FeatureKeySet \ {"bias"} :
        last.feats[k] = FNeg(matchup_features(last.b, last.a)[k])

\* The gap between 1 and the next float above it.
Epsilon == Round(1, 1 - MantBits)

\* x is 1 up to one Epsilon either way.
NearOne(x) == FLe(FSub(FOne, Epsilon), x) /\ FLe(x, FAdd(FOne, Epsilon))

\* C20 as stated: matchup features are antisymmetric under swapping the
\* fighters, so with any weight map whose bias weight is 0 the scores
\* satisfy z(a,b) = -z(b,a) and win_probability(a,b) + win_probability(b,a)
\* = 1.
C20_SwapSumsToOne ==
    /\ Featured => FeaturesNegated
    /\ (Scored /\ ZeroBias) =>
          /\ last.z = FNeg(Swapped.z)
          /\ FAdd(last.p, Swapped.p) = FOne

\* C20, amended: each non-bias feature of matchup_features(a, b) is the
\* negation of the same feature of matchup_features(b, a), and with any
\* weight map whose bias weight is 0, z(a,b) = -z(b,a) and
\* win_probability(a,b) + win_probability(b,a) is 1 up to one float
\* epsilon.
C20_SwapSumsNearOne ==
    /\ Featured => FeaturesNegated
    /\ (Scored /\ ZeroBias) =>
          /\ last.z = FNeg(Swapped.z)
          /\ NearOne(FAdd(last.p, Swapped.p))

\* A scoring with bias weight 0 and a score that is not 0, whose
\* probability and the swapped one add up to a float next to 1.
C20_SwapSumOffByRounding ==
    /\ Scored /\ ZeroBias
    /\ last.a = puncher /\ last.b = blank /\ last.weights = NoArg
    /\ last.z # FZero /\ last.z = FNeg(Swapped.z)
    /\ FAdd(last.p, Swapped.p) # FOne
    /\ NearOne(FAdd(last.p, Swapped.p))

\* The jittered records the last bootstrap call built.
CopiesOfLast ==
    UNION {{last.copies[it].aa, last.copies[it].bb} : it \in DOMAIN last.copies}

\* C21: in every bootstrap iteration, each jittered record is a valid
\* StatRecord: every one of its ten fields is >= 0, strike_acc, strike_def,
\* td_acc and td_def are <= 1.0, and aft_minutes is <= 25.0, for any noise
\* value and any Gaussian draw.
C21_JitteredRecordsValid ==
    last.op = "bootstrap_probability"
        => /\ Len(last.copies) = last.iters
           /\ \A f \in CopiesOfLast :
                 /\ \A k \in FieldSet : FLe(FZero, f[k])
                 /\ \A k \in PctFields : FLe(f[k], FOne)
                 /\ FLe(f.aft_minutes, FInt(25))

\* A call with noise 1 on the demo records, whose fields are all positive,
\* whose fight times are below 25 and whose strike_acc is below 1: the
\* first copy of a has a field floored at 0, a strike_acc held at 1 and the
\* fight time held at 25 are among the copies.
C21_DrawsClamped ==
    /\ Bootstrapped /\ last.noise = FInt(1)
    /\ \A k \in FieldSet : FLt(FZero, last.a[k]) /\ FLt(FZero, last.b[k])
    /\ FLt(last.a.strike_acc, FOne) /\ FLt(last.b.strike_acc, FOne)
    /\ \E k \in FieldSet : last.copies[1].aa[k] = FZero
    /\ \E f \in CopiesOfLast : f.strike_acc = FOne
    /\ \E f \in CopiesOfLast : f.aft_minutes = FInt(25)

\* The probabilities of the jittered pairs of the last bootstrap call, in
\* iteration order.
Collected ==
    [it \in DOMAIN last.copies |->
        win_probability(last.copies[it].aa, last.copies[it].bb,
                        Resolve(last.weights), order).p]

\* The elements of a list with their multiplicities.
BagOf(xs) == [x \in {xs[i] : i \in DOMAIN xs} |-> Cardinality({i \in DOMAIN xs : xs[i] = x})]

\* last.ps is the collected probabilities in ascending order, one per
\* iteration, and mean_p is their sum divided by their number.
SortedSamplesAndMean ==
    /\ Len(last.ps) = last.iters
    /\ BagOf(last.ps) = BagOf(Collected)
    /\ \A i, j \in DOMAIN last.ps : i <= j => FLe(last.ps[i], last.ps[j])
    /\ last.mean_p = FDiv(sum(last.ps), FInt(last.iters))

\* floor(0.05 * iters) and floor(0.95 * iters) - 1 for the last call.
LowRank == last.iters \div 20

HighRank == ((19 * last.iters) \div 20) - 1

\* C22 as stated: bootstrap_probability collects exactly iters
\* probabilities, sorts them ascending, and returns meanP = their
\* arithmetic mean, lowP = the element at 0-based rank floor(0.05*iters)
\* and highP = the element at 0-based rank floor(0.95*iters) - 1 of the
\* sorted list.
C22_RanksOfSortedSamples ==
    Bootstrapped =>
        /\ SortedSamplesAndMean
        /\ LowRank \in 0..(last.iters - 1) /\ last.lo = last.ps[LowRank + 1]
        /\ HighRank \in 0..(last.iters - 1) /\ last.hi = last.ps[HighRank + 1]

\* C22, amended: for iters >= 1 bootstrap_probability collects exactly
\* iters probabilities, sorts them ascending, and returns meanP = their
\* arithmetic mean, lowP = the element at 0-based rank floor(0.05*iters),
\* and highP = the element at 0-based rank floor(0.95*iters) - 1 when
\* iters >= 2; when iters = 1 that rank is -1, which indexes from the end,
\* and highP is the only sample.
C22_RanksWithWrapAround ==
    Bootstrapped =>
        /\ last.iters >= 1
        /\ SortedSamplesAndMean
        /\ LowRank \in 0..(last.iters - 1) /\ last.lo = last.ps[LowRank + 1]
        /\ last.iters >= 2 =>
              HighRank \in 0..(last.iters - 1) /\ last.hi = last.ps[HighRank + 1]
        /\ last.iters = 1 => HighRank = 0 - 1 /\ last.hi = last.ps[1]

\* One iteration with noise: the upper rank is -1 and both bounds are the
\* one sample, which is not the probability of the records as passed.
C22_SingleSampleBothBounds ==
    /\ Bootstrapped /\ last.iters = 1 /\ last.noise = FDec(3)
    /\ HighRank = 0 - 1
    /\ last.lo = last.ps[1] /\ last.hi = last.ps[1]
    /\ last.ps[1] # win_probability(last.a, last.b, Resolve(last.weights), order).p

\* The entry of map d at key k, a missing one counted as 0.
OrZero(d, k) == IF k \in DOMAIN d THEN d[k] ELSE FZero

\* The features and the weight map of the last scoring.
FeatsOfLast == matchup_features(last.a, last.b)

WeightsOfLast == Resolve(last.weights)

\* The order this process gives the keys of the last scoring.
OrderOfLast == order[DOMAIN WeightsOfLast]

\* The products of weight and feature for every key of that order, a
\* missing weight or feature counted as 0.
ProductsOfLast ==
    [i \in 1..Len(OrderOfLast) |->
        FMul(OrZero(WeightsOfLast, OrderOfLast[i]), OrZero(FeatsOfLast, OrderOfLast[i]))]

\* C23: win_probability computes z as the sum over the union of weight
\* keys and feature keys with a missing weight or missing feature counted
\* as 0, and returns a contribution for exactly the feature keys of
\* matchup_features(a, b) (none for weight keys outside that set); with an
\* empty weight map it returns p = 0.5 and all contributions 0.
C23_ScoreOverUnionOfKeys ==
    Scored =>
        /\ {OrderOfLast[i] : i \in 1..Len(OrderOfLast)}
              = DOMAIN WeightsOfLast \cup DOMAIN FeatsOfLast
        /\ Len(OrderOfLast) = Cardinality(DOMAIN WeightsOfLast \cup DOMAIN FeatsOfLast)
        /\ last.z = sum(ProductsOfLast)
        /\ DOMAIN last.contrib = DOMAIN FeatsOfLast
        /\ \A k \in DOMAIN last.contrib :
              last.contrib[k] = FMul(FeatsOfLast[k], OrZero(WeightsOfLast, k))
        /\ last.weights = <<>> =>
              /\ last.p = FDec(50)
              /\ \A k \in DOMAIN last.contrib : last.contrib[k] = FZero

\* A scoring of the demo pair with a weight map that has a key no feature
\* has: the key gets no contribution, the score is not 0.
C23_ExtraWeightKeyIgnored ==
    /\ Scored /\ last.a = chimaev /\ last.b = dricus
    /\ last.weights = WithExtraKey
    /\ "reach_delta" \in DOMAIN WeightsOfLast
    /\ "reach_delta" \notin DOMAIN last.contrib
    /\ last.z # FZero /\ last.p # FDec(50)

\* w after n passes of the loop body from the all-zero vector, for the
\* arguments of the last fit.
RECURSIVE FromZero(_)
FromZero(n) ==
    IF n <= 0 THEN [d \in 1..Len(last.X[1]) |-> FZero]
    ELSE Epoch(FromZero(n - 1), last.X, last.y, last.l2, last.lr)

Fitted == last.op = "fit_logistic_regression" /\ last.pc = "returned"

\* A fit never makes more passes than epochs, its vector after n passes is
\* the n-th iterate from zero whatever ran before, and it has returned only
\* after exactly epochs passes, with the zero vector if epochs = 0.
FitStepsFromZero ==
    last.op = "fit_logistic_regression" =>
        /\ last.passes \in 0..last.epochs
        /\ last.w = FromZero(last.passes)
        /\ Fitted => last.passes = last.epochs
        /\ (Fitted /\ last.epochs = 0) => \A d \in DOMAIN last.w : last.w[d] = FZero

\* Every step of a running fit is one more pass of the same call, which
\* leaves one pass fewer to make, or its return once no pass is left.
FitAdvances ==
    Fitting =>
        /\ last'.op = "fit_logistic_regression"
        /\ <<last'.X, last'.y, last'.l2, last'.lr, last'.epochs>>
              = <<last.X, last.y, last.l2, last.lr, last.epochs>>
        /\ \/ /\ last'.pc = "loop"
              /\ last'.passes = last.passes + 1
              /\ last'.passes <= last.epochs
           \/ /\ last'.pc = "returned"
              /\ last'.passes = last.passes /\ last.passes = last.epochs
              /\ last'.w = last.w

\* C24: fit_logistic_regression starts from the all-zero weight vector,
\* performs exactly `epochs` update steps and then terminates; with epochs
\* = 0 it returns the zero vector, and for fixed (X, y, l2, lr, epochs) two
\* runs return the same vector (no randomness, no dependence on earlier
\* calls).  Termination is by the number of passes left, epochs - passes:
\* it is never negative and every step of the call but the return lowers
\* it.
C24_FitTerminatesAfterEpochs == [](FitStepsFromZero) /\ [][FitAdvances]_vars

\* A fit of MaxEpochs epochs that has returned a vector other than zero,
\* which its last pass changed.
C24_FitReturnedAfterEpochs ==
    /\ Fitted /\ last.epochs = MaxEpochs /\ last.passes = MaxEpochs
    /\ last.l2 = FOne /\ last.lr = FDec(5)
    /\ \E d \in DOMAIN last.w : last.w[d] # FZero
    /\ last.w # FromZero(MaxEpochs - 1)

\* The 0-based position index i denotes in a list of n elements.
Position(i, n) == IF i < 0 THEN n + i ELSE i

\* C25: for every iters >= 1 (including iters = 1 and 2, where
\* floor(0.95*iters) - 1 is 0 or negative) bootstrap_probability returns
\* lowP <= highP: the rank selected for lowP never denotes a larger sorted
\* element than the rank selected for highP.
C25_LowerBoundNotAboveUpper ==
    (Bootstrapped /\ last.iters >= 1) =>
        /\ FLe(last.lo, last.hi)
        /\ last.lo = last.ps[Position(LoRank(last.iters), last.iters) + 1]
        /\ last.hi = last.ps[Position(HiRank(last.iters), last.iters) + 1]
        /\ \A n \in 1..MaxSamples :
              /\ Position(LoRank(n), n) \in 0..(n - 1)
              /\ Position(HiRank(n), n) \in 0..(n - 1)
              /\ Position(LoRank(n), n) <= Position(HiRank(n), n)

\* Two iterations with different samples: both ranks are 0 and both bounds
\* are the smaller sample.
C25_TwoSamplesSameRank ==
    /\ Bootstrapped /\ last.iters = 2
    /\ LoRank(2) = 0 /\ HiRank(2) = 0
    /\ FLt(last.ps[1], last.ps[2])
    /\ last.lo = last.ps[1] /\ last.hi = last.ps[1]

\* win_probability of the records as passed to the last call.
Unjittered == win_probability(last.a, last.b, Resolve(last.weights), order).p

\* C26: with noise = 0 and valid StatRecords a, b, every bootstrap sample
\* equals win_probability(a, b, weights), so bootstrap_probability returns
\* lowP = highP = win_probability(a, b, weights) and meanP equal to the
\* same value, for every iters >= 1 and every seed.
C26_ZeroNoiseReturnsProbability ==
    (/\ Bootstrapped /\ last.iters >= 1 /\ last.noise = FZero
     /\ Valid(last.a) /\ Valid(last.b))
        => /\ \A i \in DOMAIN last.ps : last.ps[i] = Unjittered
           /\ last.lo = Unjittered /\ last.hi = Unjittered
           /\ last.mean_p = Unjittered

\* Three iterations without noise: the three samples and both bounds are
\* the probability of the records as passed, and the mean is not.
C26_MeanOfEqualSamplesDiffers ==
    /\ Bootstrapped /\ last.iters = 3 /\ last.noise = FZero
    /\ last.a = blank /\ last.b = puncher
    /\ Valid(last.a) /\ Valid(last.b)
    /\ \A i \in DOMAIN last.ps : last.ps[i] = Unjittered
    /\ last.lo = Unjittered /\ last.hi = Unjittered
    /\ last.mean_p # Unjittered

\* C27: bootstrap_probability called with iters = 0 does not return a
\* result: with no samples collected the mean and rank selection fail with
\* an error, and no (meanP, (lowP, highP)) value is produced.
C27_NoIterationsRaises ==
    (last.op = "bootstrap_probability" /\ last.iters = 0)
        => /\ Len(last.ps) = 0 /\ Len(last.copies) = 0
           /\ ~last.ok
           /\ last.err = "ZeroDivisionError"

\* A call on the demo pair with iters = 0 and noise: it ended in the error
\* with no jittered record built.
C27_EmptySampleListRaised ==
    /\ last.op = "bootstrap_probability" /\ last.iters = 0
    /\ last.a = chimaev /\ last.b = dricus /\ last.noise = FDec(3)
    /\ last.copies = <<>>
    /\ ~last.ok /\ last.err = "ZeroDivisionError"

\* The keys the statements of the last round adjustment assign.
KeysOfRound == IF last.round_num <= 2 THEN EarlyKeys ELSE LateKeys

\* The passed base map with a weight of 0 at every feature key it lacks.
BaseWithZeros ==
    [k \in DOMAIN last.base \cup FeatureKeySet |->
        IF k \in DOMAIN last.base THEN last.base[k] ELSE FZero]

\* C28: round_adjusted_weights requires base to contain every key it
\* scales in the given round: called with a base weight map lacking one of
\* those keys (e.g. a calibrated map built from a subset of feature keys)
\* it fails with an error and returns no mapping, whereas win_probability
\* with the same map treats the missing weight as 0 and succeeds.
C28_BaseMustHoldScaledKeys ==
    (/\ last.op = "round_adjusted_weights"
     /\ last.base # NoArg
     /\ ~(KeysOfRound \subseteq DOMAIN last.base))
        => /\ ~last.ok
           /\ last.err \in {"KeyError", "ZeroDivisionError"}
           /\ (last.f1_fatigue # FZero /\ last.f2_fatigue # FZero)
                 => last.err = "KeyError"
           /\ win_probability(f1, f2, last.base, order).z
                 = DotOver(BaseWithZeros, matchup_features(f1, f2),
                           order[DOMAIN last.base])
           /\ \A k \in FeatureKeySet \ DOMAIN last.base :
                 win_probability(f1, f2, last.base, order).contrib[k] = FZero

\* Round 1 of the demo pair with the calibrated three-key map as base:
\* td_control_delta is there, td_vs_tdd_interaction is not, and the call
\* raises KeyError; win_probability with that map gives a probability
\* other than 0.5.
C28_CalibratedBaseRaises ==
    /\ last.op = "round_adjusted_weights" /\ last.round_num = 1
    /\ last.f1 = chimaev /\ last.f2 = dricus
    /\ last.base = Calibrated
    /\ "td_control_delta" \in DOMAIN last.base
    /\ "td_vs_tdd_interaction" \notin DOMAIN last.base
    /\ ~last.ok /\ last.err = "KeyError"
    /\ win_probability(chimaev, dricus, Calibrated, order).p # FDec(50)
=============================================================================
